---- MODULE Spec2Model ----
(***************************************************************************)
(* Model of the Mipa Tab Manager sync core.                                *)
(*                                                                         *)
(* Two code variants live side by side in the repository and both are      *)
(* modelled, sharing one clock, one local store per browser profile and    *)
(* one set of remote gists:                                                *)
(*   - the service variant: StorageService + GistService.syncWithGist,     *)
(*     called by the popup's saveToStorageAndSync;                         *)
(*   - the manager variant: MipaTabManager with its isSaving / isSyncing   *)
(*     flags, the debounced performSaveCollections and syncWithGist.       *)
(*                                                                         *)
(* Data conventions.  A property that is missing or undefined is the       *)
(* value 0 for ids and timestamps and the string UNDEF for strings, so     *)
(* JSON.stringify (which drops undefined properties) followed by           *)
(* JSON.parse maps a record of the model to itself.  The colour of a       *)
(* collection is copied verbatim by every operation and is left out.       *)
(* Timestamps are positive integers and come in two kinds the code never   *)
(* compares with each other: epoch milliseconds (Date.now(), lastModified, *)
(* the gist's updated_at after getTime()) and ISO strings (createdAt and   *)
(* updatedAt of the entities).  The code only ever compares timestamps, so *)
(* the Tick action renumbers those in use, kind by kind, keeping their     *)
(* order.                                                                  *)
(***************************************************************************)
EXTENDS Integers, Sequences, FiniteSets, TLC

\* Number of collection ids the users can create (odd ids by A, even by B).
NumCols == 2

UNDEF == "undefined"

Procs == {"A", "B"}
ColIds == 1..NumCols
IdsOf(p) == {i \in ColIds : (i % 2 = 1) <=> (p = "A")}

ColIdsIn(cols) == {cols[i].id : i \in DOMAIN cols}

(***************************************************************************)
(* Entity model                                                            *)
(***************************************************************************)
Tab(id, title, url, description, updatedAt) ==
    [id |-> id, title |-> title, url |-> url, description |-> description,
     updatedAt |-> updatedAt]

Col(id, name, title, createdAt, updatedAt, tabs) ==
    [id |-> id, name |-> name, title |-> title, createdAt |-> createdAt,
     updatedAt |-> updatedAt, tabs |-> tabs]

\* JavaScript truthiness of a string property.
Truthy(s) == s # UNDEF /\ s # ""

\* `a || b` on string properties.
OrElse(a, b) == IF Truthy(a) THEN a ELSE b

(***************************************************************************)
(* StorageService.prepareCollectionsForSaving: the canonical form.         *)
(* nowIso is `new Date().toISOString()`, freshId the synthesized tab id.   *)
(***************************************************************************)
PrepareTab(tab, freshId) ==
    Tab(IF tab.id # 0 THEN tab.id ELSE freshId,
        IF Truthy(tab.title) THEN tab.title ELSE "Untitled",
        IF Truthy(tab.url) THEN tab.url ELSE "",
        IF Truthy(tab.description) /\ tab.description # tab.title
            THEN tab.description ELSE UNDEF,
        0)

\* A preparation that stamps createdAt on every save instead of keeping the
\* stored one: the comparison of C8 then never finds the content unchanged.
PrepareRestamping(collections, nowIso, freshId) ==
    [i \in DOMAIN collections |->
        LET c == collections[i] IN
        Col(c.id,
            OrElse(c.name, c.title),
            UNDEF,
            nowIso,
            0,
            [j \in DOMAIN c.tabs |-> PrepareTab(c.tabs[j], freshId)])]

PrepareCollectionsForSaving(collections, nowIso, freshId) ==
    [i \in DOMAIN collections |->
        LET c == collections[i] IN
        Col(c.id,
            OrElse(c.name, c.title),
            UNDEF,
            IF c.createdAt # 0 THEN c.createdAt ELSE nowIso,
            0,
            [j \in DOMAIN c.tabs |-> PrepareTab(c.tabs[j], freshId)])]

(***************************************************************************)
(* MipaUtils.sortCollections: a copy sorted descending by createdAt (a     *)
(* missing createdAt is epoch 0); Array.prototype.sort is stable.          *)
(***************************************************************************)
\* An insertion that puts a collection before those of the same createdAt:
\* a sort that is not stable, so that sorting a sorted list changes it.
RECURSIVE InsertBeforeTies(_, _)
InsertBeforeTies(sorted, c) ==
    IF sorted = <<>> THEN <<c>>
    ELSE IF Head(sorted).createdAt > c.createdAt
         THEN <<Head(sorted)>> \o InsertBeforeTies(Tail(sorted), c)
         ELSE <<c>> \o sorted

RECURSIVE InsertByCreatedAt(_, _)
InsertByCreatedAt(sorted, c) ==
    IF sorted = <<>> THEN <<c>>
    ELSE IF Head(sorted).createdAt >= c.createdAt
         THEN <<Head(sorted)>> \o InsertByCreatedAt(Tail(sorted), c)
         ELSE <<c>> \o sorted

RECURSIVE SortCollections(_)
SortCollections(collections) ==
    IF collections = <<>> THEN <<>>
    ELSE InsertByCreatedAt(
            SortCollections(SubSeq(collections, 1, Len(collections) - 1)),
            collections[Len(collections)])

(***************************************************************************)
(* GistService.mergeCollections: a Map keyed by id, filled with the local  *)
(* list and then the remote list; a Map keeps the position of the first    *)
(* insertion of a key and the value of the last.                           *)
(***************************************************************************)
\* A fill that keeps the value of the first insertion of a key: the local
\* record then wins every conflict of C34.
RECURSIVE MapSetIfAbsent(_, _)
MapSetIfAbsent(entries, cols) ==
    IF cols = <<>> THEN entries
    ELSE LET c == Head(cols)
         IN MapSetIfAbsent(IF \E i \in DOMAIN entries : entries[i].id = c.id
                           THEN entries ELSE Append(entries, c),
                           Tail(cols))

RECURSIVE MapSetAll(_, _)
MapSetAll(entries, cols) ==
    IF cols = <<>> THEN entries
    ELSE LET c == Head(cols)
             hit == {i \in DOMAIN entries : entries[i].id = c.id}
         IN MapSetAll(IF hit = {} THEN Append(entries, c)
                      ELSE [i \in DOMAIN entries |->
                               IF i \in hit THEN c ELSE entries[i]],
                      Tail(cols))

MergeCollections(local, remote) ==
    MapSetAll(MapSetAll(<<>>, local), remote)

(***************************************************************************)
(* The text of the gist file.  deterministicStringify is                   *)
(* JSON.stringify(obj, null, 2); the file can also be empty or hold text   *)
(* that is no JSON.                                                        *)
(***************************************************************************)
DeterministicStringify(obj) == [kind |-> "json", val |-> obj]
EmptyContent == [kind |-> "empty", val |-> <<>>]
Malformed == [kind |-> "malformed", val |-> <<>>]
\* Text that is JSON but no list (an object, null, a number): JSON.parse
\* returns its value, and the forEach of the merge throws a TypeError.
NotAList == [kind |-> "object", val |-> <<>>]
IsEmptyContent(content) == content.kind = "empty"
\* A parser that takes any text for a list (an empty one when it is none):
\* the merges of C21 then go through on garbled text.
ParsesAnyText(content) == TRUE

CanParse(content) == content.kind = "json"
JSONParse(content) == content.val

(***************************************************************************)
(* State                                                                   *)
(***************************************************************************)
VARIABLES
    now,             \* the wall clock read by Date.now() and by the gist server
    nowIso,          \* the same clock read by new Date().toISOString()
    collections,     \* chrome.storage.local `collections`, per profile
    lastModified,    \* chrome.storage.local `lastModified` (0: not stored)
    gistId,          \* chrome.storage.local `gistId` (NoGist: not stored)
    githubToken,     \* chrome.storage.local `githubToken` is stored
    lastSyncedData,  \* chrome.storage.local `lastSyncedData`
    gists,           \* the gists on the server, by id
    svc,             \* the running GistService.syncWithGist calls, by task
    held,            \* history: the collection ids a profile has ever stored
    memCollections,  \* MipaTabManager.collections of the manager page
    isSaving,        \* MipaTabManager.isSaving
    isSyncing,       \* MipaTabManager.isSyncing
    saveTimer,       \* MipaTabManager.saveTimer is armed
    autoSync,        \* init() has yet to reach setupAutoSync
    syn,             \* the running MipaTabManager.syncWithGist call
    sav              \* the running performSaveCollections calls, by task

storeVars == <<collections, lastModified, gistId, githubToken, lastSyncedData>>
mgrVars == <<memCollections, isSaving, isSyncing, saveTimer, autoSync, syn, sav>>
vars == <<now, nowIso, collections, lastModified, gistId, githubToken, lastSyncedData,
          gists, svc, held, mgrVars>>

\* The tasks of the popup: two of profile A (two overlapping user actions in
\* one popup) and one of profile B.
Tasks == {"a1", "a2", "b1"}
ProcOf(t) == IF t = "b1" THEN "B" ELSE "A"

\* The last four fields of a frame are history: the path the attempt took,
\* how the timestamps it compared were ordered, the collection ids of the
\* remote content it fetched, and whether the save that called it completed
\* while another attempt of the profile was merging or pushing.
\* The clients of the model share the gist g1; a gist created anew is g2.
\* NoGist is a gistId that is not stored, NoSuchGist a gist the server lacks.
SharedGist == "g1"
NoGist == "none"
GistIds == {"g1", "g2"}
NoSuchGist == [exists |-> FALSE, content |-> EmptyContent, updated_at |-> 0]

IdleFrame ==
    [pc |-> "idle", arg |-> FALSE, local |-> <<>>, lm |-> 0, gid |-> NoGist,
     rContent |-> EmptyContent, rUpdatedAt |-> 0, content |-> EmptyContent,
     path |-> "none", cmp |-> "na", seen |-> {}, over |-> FALSE]

(***************************************************************************)
(* StorageService.loadCollections and saveToLocalStorage                   *)
(***************************************************************************)
LoadCollections(p) == SortCollections(collections[p])

\* What saveToLocalStorage hands to chrome.storage.local.set in one call;
\* freshId is the id synthesized for the tabs that have none.
SaveToLocalStorageFresh(cols, sort, nowMs, freshId) ==
    LET formatted == PrepareCollectionsForSaving(cols, nowIso, freshId)
    IN [collections |-> IF sort THEN SortCollections(formatted) ELSE formatted,
        lastModified |-> nowMs]

\* The same for the lists of the popup and of the gist, in which every tab
\* has an id, so that none is synthesized.
SaveToLocalStorage(cols, sort, nowMs) == SaveToLocalStorageFresh(cols, sort, nowMs, 0)

StorageSet(p, saved) ==
    /\ collections' = [collections EXCEPT ![p] = saved.collections]
    /\ lastModified' = [lastModified EXCEPT ![p] = saved.lastModified]
    /\ held' = [held EXCEPT ![p] = @ \cup ColIdsIn(saved.collections)]

\* The phases of a running call.
InProgress(t) == svc[t].pc \in {"fetch", "load", "patch", "saved", "synced"}
MergingOrPushing(t) == svc[t].pc \in {"saved", "patch"}

(***************************************************************************)
(* The popup: saveAllTabsToCollection creates a collection stamped with    *)
(* the current time, saves and then syncs with the in-memory list          *)
(* (saveToStorageAndSync does the same two calls after adding a tab).      *)
(* The popup's in-memory list is the stored one: its storage listener has  *)
(* reloaded it after the last change.                                      *)
(***************************************************************************)
SaveAllTabsToCollection(t, id) ==
    LET p == ProcOf(t)
        mem == SortCollections(
                   Append(LoadCollections(p), Col(id, "c", UNDEF, nowIso, 0, <<>>)))
    IN /\ svc[t].pc = "idle"
       /\ id \notin held[p]
       /\ StorageSet(p, SaveToLocalStorage(mem, TRUE, now))
       /\ svc' = [svc EXCEPT ![t] =
                     [IdleFrame EXCEPT !.pc = "start", !.arg = TRUE, !.local = mem,
                                       !.over = \E u \in Tasks \ {t} :
                                                   /\ ProcOf(u) = p
                                                   /\ MergingOrPushing(u)]]
       /\ UNCHANGED <<mgrVars, now, nowIso, gistId, githubToken, lastSyncedData, gists>>

(***************************************************************************)
(* GistService.syncWithGist                                                *)
(***************************************************************************)
\* A call with the default argument (localCollections = null).
SyncTrigger(t) ==
    /\ svc[t].pc = "idle"
    /\ svc' = [svc EXCEPT ![t] = [IdleFrame EXCEPT !.pc = "start"]]
    /\ UNCHANGED <<mgrVars, now, nowIso, storeVars, gists, held>>

\* Lines 26-36: read the credentials and lastModified, issue the GET.  After
\* the return of line 30 the frame keeps, as history, that the call ended there.
SyncStart(t) ==
    LET p == ProcOf(t) IN
    /\ svc[t].pc = "start"
    /\ svc' = [svc EXCEPT ![t] =
                  IF ~githubToken[p] \/ gistId[p] = NoGist
                  THEN [IdleFrame EXCEPT !.path = "noop"]
                  ELSE [@ EXCEPT !.pc = "fetch", !.lm = lastModified[p],
                                 !.gid = gistId[p], !.over = FALSE]]
    /\ UNCHANGED <<mgrVars, now, nowIso, storeVars, gists, held>>

RemoteIsNewerOrSame(remoteUpdatedAt, lastMod) == remoteUpdatedAt >= lastMod

\* Line 61: the decision between merging and pushing.
RemoteIsNewer(remoteUpdatedAt, lastMod) == remoteUpdatedAt > lastMod

Compare(a, b) == IF a > b THEN "gt" ELSE IF a = b THEN "eq" ELSE "lt"

\* A body of updateGist that sends the text of an empty list whatever it is
\* given: the bootstrap push of C17 then leaves the remote without the local
\* collections.
UpdateGistContentEmpty(cols, isoNow) == DeterministicStringify(<<>>)

\* GistService.updateGist, line 92: the text it sends.
UpdateGistContent(cols, isoNow) ==
    DeterministicStringify(PrepareCollectionsForSaving(cols, isoNow, 0))

\* Lines 55-78, run without a break once the local collections are known.
Decide(t, f) ==
    LET p == ProcOf(t)
        cmp == Compare(f.rUpdatedAt, f.lm)
    IN
    IF IsEmptyContent(f.rContent)
    THEN /\ svc' = [svc EXCEPT ![t] =
                [IdleFrame EXCEPT !.pc = "patch", !.path = "empty", !.gid = f.gid,
                          !.content = UpdateGistContent(f.local, nowIso)]]
         /\ UNCHANGED <<collections, lastModified, held>>
    ELSE IF RemoteIsNewer(f.rUpdatedAt, f.lm)
    THEN IF CanParse(f.rContent)
         THEN /\ StorageSet(p, SaveToLocalStorage(
                      MergeCollections(f.local, JSONParse(f.rContent)), TRUE, now))
              /\ svc' = [svc EXCEPT ![t] =
                     [IdleFrame EXCEPT !.pc = "saved", !.path = "merge", !.cmp = cmp]]
         ELSE /\ svc' = [svc EXCEPT ![t] = [IdleFrame EXCEPT !.path = "garbled"]]
              /\ UNCHANGED <<collections, lastModified, held>>
    ELSE LET prepared == PrepareCollectionsForSaving(f.local, nowIso, 0)
         IN /\ svc' = [svc EXCEPT ![t] =
                   IF DeterministicStringify(prepared) # f.rContent
                   THEN [IdleFrame EXCEPT !.pc = "patch", !.path = "push",
                                          !.cmp = cmp, !.gid = f.gid,
                                          !.seen = ColIdsIn(f.rContent.val),
                                  !.content = UpdateGistContent(prepared, nowIso)]
                   ELSE IdleFrame]
            /\ UNCHANGED <<collections, lastModified, held>>

\* A 404 branch that leaves the stored gistId alone: the handle of C14 is
\* then still cached after the gist was found missing.
KeepGistId(ids, p) == ids

\* Line 41: chrome.storage.local.remove('gistId').
RemoveGistId(ids, p) == [ids EXCEPT ![p] = NoGist]

\* Lines 34-50: the server answers the GET with the gist as it is now.  After
\* a 404 the frame keeps, as history, that the call ended there.
SyncFetch(t, answers) ==
    LET p == ProcOf(t)
        g == gists[svc[t].gid]
    IN
    /\ svc[t].pc = "fetch"
    /\ \E answer \in answers :
          IF answer = "error"
          THEN /\ svc' = [svc EXCEPT ![t] = IdleFrame]
               /\ UNCHANGED <<storeVars, held>>
          ELSE IF ~g.exists
          THEN /\ gistId' = RemoveGistId(gistId, p)
               /\ svc' = [svc EXCEPT ![t] = [IdleFrame EXCEPT !.path = "gone"]]
               /\ UNCHANGED <<collections, lastModified, githubToken,
                              lastSyncedData, held>>
          ELSE /\ svc' = [svc EXCEPT ![t] =
                         [@ EXCEPT !.pc = "load", !.rContent = g.content,
                                   !.rUpdatedAt = g.updated_at]]
               /\ UNCHANGED <<storeVars, held>>
    /\ UNCHANGED <<mgrVars, now, nowIso, gists>>

\* Lines 53-78: the answer has arrived; the local collections are the
\* argument or, without one, what StorageService.loadCollections reads.
SyncLoad(t) ==
    /\ svc[t].pc = "load"
    /\ Decide(t, IF svc[t].arg THEN svc[t]
                 ELSE [svc[t] EXCEPT !.local = LoadCollections(ProcOf(t))])
    /\ UNCHANGED <<mgrVars, now, nowIso, gistId, githubToken, lastSyncedData, gists>>

\* GistService.updateGist: the answer to the PATCH, whose status is not
\* looked at, and the write of lastSyncedData.
UpdateGist(t, answers) ==
    LET p == ProcOf(t)
        f == svc[t]
    IN
    /\ f.pc = "patch"
    /\ \E answer \in answers :
          /\ IF answer = "ok" /\ gists[f.gid].exists
             THEN gists' = [gists EXCEPT ![f.gid] =
                      [exists |-> TRUE, content |-> f.content, updated_at |-> now]]
             ELSE UNCHANGED gists
          /\ IF answer = "error"
             THEN /\ UNCHANGED lastSyncedData
                  /\ svc' = [svc EXCEPT ![t] = IdleFrame]
             ELSE /\ lastSyncedData' = [lastSyncedData EXCEPT ![p] = f.content]
                  /\ svc' = [svc EXCEPT ![t] = [f EXCEPT !.pc = "synced"]]
    /\ UNCHANGED <<mgrVars, now, nowIso, collections, lastModified, gistId, githubToken, held>>

\* The storage write awaited last (line 65 or line 103) has completed: return.
SyncReturn(t) ==
    /\ svc[t].pc \in {"saved", "synced"}
    /\ svc' = [svc EXCEPT ![t] = IdleFrame]
    /\ UNCHANGED <<mgrVars, now, nowIso, storeVars, gists, held>>

(***************************************************************************)
(* The manager variant: MipaTabManager of the manager page, which runs in  *)
(* profile A.                                                              *)
(***************************************************************************)
MgrProc == "A"

\* new Date(0).toISOString(): the timestamp the merge gives an item without
\* updatedAt.  It is a string, hence truthy, and older than any clock reading.
Epoch == 1

LoggedIn == githubToken[MgrProc] /\ gistId[MgrProc] # NoGist

\* MipaTabManager.prepareCollectionsForSaving; syncWithGist maps the same way
\* before it creates a gist.
MgrPrepareTab(tab, isoNow) ==
    Tab(tab.id, tab.title, tab.url, tab.description,
        IF tab.updatedAt # 0 THEN tab.updatedAt ELSE isoNow)

MgrPrepareCollectionsForSaving(cols, isoNow) ==
    [i \in DOMAIN cols |->
        LET c == cols[i] IN
        Col(c.id,
            OrElse(c.name, c.title),
            UNDEF,
            0,
            IF c.updatedAt # 0 THEN c.updatedAt ELSE isoNow,
            [j \in DOMAIN c.tabs |-> MgrPrepareTab(c.tabs[j], isoNow)])]

\* loadFromGistAndMerge gives every item the fixed property order and the
\* epoch as updatedAt when it has none: the same mapping with another default.
WithFixedOrder(cols) == MgrPrepareCollectionsForSaving(cols, Epoch)

\* isNewer: is the local item strictly newer than the gist's.
IsNewer(localItem, gistItem) ==
    LET localTime == IF localItem.updatedAt # 0 THEN localItem.updatedAt ELSE Epoch
        gistTime == IF gistItem.updatedAt # 0 THEN gistItem.updatedAt ELSE Epoch
    IN localTime > gistTime

\* A sequence without its i-th element (Map.delete).
Without(seq, i) == SubSeq(seq, 1, i - 1) \o SubSeq(seq, i + 1, Len(seq))

\* The tabs of a collection both sides hold: the gist's tabs in the gist's
\* order, each replaced by the local one when that is newer, then the local
\* tabs the gist lacks.
RECURSIVE MergeTabs(_, _, _)
MergeTabs(gistTabs, existingTabs, mergedTabs) ==
    IF gistTabs = <<>>
    THEN mergedTabs \o [j \in DOMAIN existingTabs |-> MgrPrepareTab(existingTabs[j], Epoch)]
    ELSE LET gistTab == MgrPrepareTab(Head(gistTabs), Epoch)
             hit == {j \in DOMAIN existingTabs : existingTabs[j].id = gistTab.id}
         IN IF hit = {}
            THEN MergeTabs(Tail(gistTabs), existingTabs, Append(mergedTabs, gistTab))
            ELSE LET j == CHOOSE k \in hit : TRUE
                     localTab == MgrPrepareTab(existingTabs[j], Epoch)
                 IN MergeTabs(Tail(gistTabs), Without(existingTabs, j),
                              Append(mergedTabs,
                                     IF IsNewer(localTab, gistTab) THEN localTab
                                                                  ELSE gistTab))

\* The loop over the gist's collections, then the local ones the gist lacks.
\* `existing` is existingCollectionsMap: a Map holds one entry per id.
RECURSIVE MergeLoop(_, _, _)
MergeLoop(gistCollections, existing, mergedCollections) ==
    IF gistCollections = <<>>
    THEN mergedCollections \o WithFixedOrder(existing)
    ELSE LET gistCol == WithFixedOrder(<<Head(gistCollections)>>)[1]
             hit == {i \in DOMAIN existing : existing[i].id = gistCol.id}
         IN IF hit = {}
            THEN MergeLoop(Tail(gistCollections), existing,
                           Append(mergedCollections, gistCol))
            ELSE LET i == CHOOSE k \in hit : TRUE
                     localCol == WithFixedOrder(<<existing[i]>>)[1]
                     newer == IsNewer(localCol, gistCol)
                     mergedCol ==
                         Col(gistCol.id,
                             IF newer THEN localCol.name ELSE gistCol.name,
                             UNDEF,
                             0,
                             IF newer THEN localCol.updatedAt ELSE gistCol.updatedAt,
                             MergeTabs(gistCol.tabs,
                                       MapSetAll(<<>>, existing[i].tabs), <<>>))
                 IN MergeLoop(Tail(gistCollections), Without(existing, i),
                              Append(mergedCollections, mergedCol))

\* loadFromGistAndMerge, lines 1852-1975.
LoadFromGistAndMerge(localCollections, gistCollections) ==
    MergeLoop(gistCollections, MapSetAll(<<>>, localCollections), <<>>)

\* The locals of a syncWithGist call; `exit` and `dropped` are history: how
\* the last call left ("merged": it returned after loadFromGistAndMerge had
\* merged), and whether performSaveCollections returned at its entry because
\* of the call.
SynIdle ==
    [pc |-> "idle", caller |-> "none", gid |-> NoGist, data |-> EmptyContent,
     exit |-> "none", dropped |-> FALSE]

\* The locals of a performSaveCollections call.
SavIdle == [pc |-> "idle", toSave |-> <<>>, gid |-> NoGist]

SaveTasks == {"s1", "s2"}

\* What the finally block of syncWithGist and of performSaveCollections
\* assigns to the flag, however the try block was left.
\* A release written at the end of the try block instead of in `finally`:
\* the flag of C4 stays set when the body throws.
ReleasedOnReturnOnly(outcome) == outcome = "throw"

Finally(outcome) == FALSE

\* syncWithGist leaves its try block.
SynExit(outcome) ==
    /\ isSyncing' = Finally(outcome)
    /\ syn' = [SynIdle EXCEPT !.exit = outcome, !.dropped = syn.dropped]

\* performSaveCollections leaves its try block; an error was caught and logged.
SavExit(s, outcome) ==
    /\ isSaving' = Finally(outcome)
    /\ sav' = [sav EXCEPT ![s] = SavIdle]

\* saveAddCollection: a new collection stamped updatedAt, then saveCollections,
\* which re-arms the 300 ms timer.
SaveAddCollection(id) ==
    /\ id \notin ColIdsIn(memCollections) \cup held[MgrProc]
    /\ \A g \in GistIds : id \notin ColIdsIn(gists[g].content.val)
    /\ memCollections' = Append(memCollections, Col(id, "c", UNDEF, 0, nowIso, <<>>))
    /\ saveTimer' = TRUE
    /\ UNCHANGED <<now, nowIso, storeVars, gists, svc, held, isSaving, isSyncing,
                   autoSync, syn, sav>>

\* The timer fires: performSaveCollections up to its first await.
PerformSaveCollections(s) ==
    /\ saveTimer
    /\ sav[s].pc = "idle"
    /\ s = "s2" => sav["s1"].pc # "idle"
    /\ saveTimer' = FALSE
    /\ IF isSyncing
       THEN /\ syn' = [syn EXCEPT !.dropped = TRUE]
            /\ UNCHANGED <<isSaving, sav>>
       ELSE /\ isSaving' = TRUE
            /\ sav' = [sav EXCEPT ![s] =
                   [SavIdle EXCEPT !.pc = "check",
                       !.toSave = MgrPrepareCollectionsForSaving(memCollections, nowIso)]]
            /\ UNCHANGED syn
    /\ UNCHANGED <<now, nowIso, storeVars, gists, svc, held, memCollections,
                   isSyncing, autoSync>>

\* checkIfCollectionsChanged has read the store; when the lists differ,
\* saveCollectionsToLocalStorage writes `collections` (and nothing else).
SaveCheckAndStore(s) ==
    /\ sav[s].pc = "check"
    /\ IF sav[s].toSave # collections[MgrProc]
       THEN /\ collections' = [collections EXCEPT ![MgrProc] = sav[s].toSave]
            /\ held' = [held EXCEPT ![MgrProc] = @ \cup ColIdsIn(sav[s].toSave)]
            /\ sav' = [sav EXCEPT ![s].pc = "stored"]
            /\ UNCHANGED isSaving
       ELSE /\ SavExit(s, "return")
            /\ UNCHANGED <<collections, held>>
    /\ UNCHANGED <<now, nowIso, lastModified, gistId, githubToken, lastSyncedData,
                   gists, memCollections, isSyncing, saveTimer, autoSync, syn>>

\* The same step where the change event of the write is not followed.
SaveCheck(s) == SaveCheckAndStore(s) /\ UNCHANGED svc

\* syncCollectionsWithGist has read the credentials; with both it issues the
\* GET of syncWithGistIfNeeded.
SaveCreds(s) ==
    /\ sav[s].pc = "stored"
    /\ IF LoggedIn
       THEN /\ sav' = [sav EXCEPT ![s].pc = "get", ![s].gid = gistId[MgrProc]]
            /\ UNCHANGED isSaving
       ELSE SavExit(s, "return")
    /\ UNCHANGED <<now, nowIso, storeVars, gists, svc, held, memCollections,
                   isSyncing, saveTimer, autoSync, syn>>

\* syncWithGistIfNeeded: the answer to the GET.  "ok" is the server's true
\* answer (404 for a gist it lacks), "status" another status that is not ok,
\* "error" a failed request.
SaveGet(s, answers) ==
    LET f == sav[s]
        g == gists[f.gid]
    IN
    /\ f.pc = "get"
    /\ \E answer \in answers :
          IF answer = "error"
          THEN SavExit(s, "throw")
          ELSE IF answer = "ok" /\ g.exists
                  /\ DeterministicStringify(f.toSave) = g.content
          THEN SavExit(s, "return")
          ELSE /\ sav' = [sav EXCEPT ![s].pc = "patch"]
               /\ UNCHANGED isSaving
    /\ UNCHANGED <<now, nowIso, storeVars, gists, svc, held, memCollections,
                   isSyncing, saveTimer, autoSync, syn>>

\* MipaTabManager.updateGist: the answer to the PATCH; after a 404 it issues
\* the POST of createGist.
SavePatch(s, answers) ==
    LET f == sav[s] IN
    /\ f.pc = "patch"
    /\ \E answer \in answers :
          IF answer = "ok" /\ gists[f.gid].exists
          THEN /\ gists' = [gists EXCEPT ![f.gid] =
                      [exists |-> TRUE, content |-> DeterministicStringify(f.toSave),
                       updated_at |-> now]]
               /\ SavExit(s, "return")
          ELSE IF answer = "ok"
          THEN /\ sav' = [sav EXCEPT ![s].pc = "post"]
               /\ UNCHANGED <<gists, isSaving>>
          ELSE /\ SavExit(s, "throw")
               /\ UNCHANGED gists
    /\ UNCHANGED <<now, nowIso, storeVars, svc, held, memCollections,
                   isSyncing, saveTimer, autoSync, syn>>

\* The server creates a gist it does not have yet.
CreateGist(g, data) ==
    /\ ~gists[g].exists
    /\ gists' = [gists EXCEPT ![g] =
                    [exists |-> TRUE, content |-> data, updated_at |-> now]]
    /\ gistId' = [gistId EXCEPT ![MgrProc] = g]

\* updateGist after the 404: the answer to the POST of createGist and the
\* write of the new gistId.
SavePost(s, answers) ==
    LET f == sav[s] IN
    /\ f.pc = "post"
    /\ \E answer \in answers :
          IF answer = "ok" /\ \E g \in GistIds : ~gists[g].exists
          THEN /\ \E g \in GistIds : CreateGist(g, DeterministicStringify(f.toSave))
               /\ SavExit(s, "return")
          ELSE /\ SavExit(s, "throw")
               /\ UNCHANGED <<gists, gistId>>
    /\ UNCHANGED <<now, nowIso, collections, lastModified, githubToken,
                   lastSyncedData, svc, held, memCollections, isSyncing, saveTimer,
                   autoSync, syn>>

\* syncWithGist up to its first await: a call while isSyncing is set returns
\* at once.
SyncWithGist(caller) ==
    IF isSyncing
    THEN UNCHANGED <<isSyncing, syn>>
    ELSE /\ isSyncing' = TRUE
         /\ syn' = [SynIdle EXCEPT !.pc = "gistId", !.caller = caller]

\* init() reaches setupAutoSync, which syncs when the profile is logged in.
SetupAutoSync ==
    /\ autoSync
    /\ autoSync' = FALSE
    /\ IF LoggedIn THEN SyncWithGist("auto") ELSE UNCHANGED <<isSyncing, syn>>
    /\ UNCHANGED <<now, nowIso, storeVars, gists, svc, held, memCollections,
                   isSaving, saveTimer, sav>>

\* The login form is offered when not logged in; its button is disabled while
\* handleGistConnect runs.  It stores the token and syncs.
HandleGistConnect ==
    /\ ~LoggedIn
    /\ ~(syn.pc # "idle" /\ syn.caller = "connect")
    /\ githubToken' = [githubToken EXCEPT ![MgrProc] = TRUE]
    /\ SyncWithGist("connect")
    /\ UNCHANGED <<now, nowIso, collections, lastModified, gistId, lastSyncedData,
                   gists, svc, held, memCollections, isSaving, saveTimer, autoSync,
                   sav>>

\* logoutFromGist, offered when logged in.
LogoutFromGist ==
    /\ LoggedIn
    /\ githubToken' = [githubToken EXCEPT ![MgrProc] = FALSE]
    /\ gistId' = [gistId EXCEPT ![MgrProc] = NoGist]
    /\ UNCHANGED <<now, nowIso, collections, lastModified, lastSyncedData, gists,
                   svc, held, mgrVars>>

\* syncWithGist has read gistId: with one it calls loadFromGistAndMerge,
\* without one it issues the GET of findExistingMipaGist.
SyncGistId ==
    /\ syn.pc = "gistId"
    /\ syn' = [syn EXCEPT !.pc = IF gistId[MgrProc] # NoGist THEN "creds" ELSE "find"]
    /\ UNCHANGED <<now, nowIso, storeVars, gists, svc, held, memCollections,
                   isSaving, isSyncing, saveTimer, autoSync, sav>>

\* findExistingMipaGist: the answer to the GET of the gist list.  A gist found
\* is adopted (its id stored); with none the POST of createGist is issued with
\* the in-memory collections.
FindExistingMipaGist(answers) ==
    /\ syn.pc = "find"
    /\ \E answer \in answers :
          IF answer # "ok"
          THEN /\ SynExit("throw")
               /\ UNCHANGED gistId
          ELSE IF \E g \in GistIds : gists[g].exists
          THEN /\ \E g \in GistIds :
                     /\ gists[g].exists
                     /\ gistId' = [gistId EXCEPT ![MgrProc] = g]
               /\ syn' = [syn EXCEPT !.pc = "creds"]
               /\ UNCHANGED isSyncing
          ELSE /\ syn' = [syn EXCEPT !.pc = "create",
                             !.data = DeterministicStringify(
                                 MgrPrepareCollectionsForSaving(memCollections, nowIso))]
               /\ UNCHANGED <<gistId, isSyncing>>
    /\ UNCHANGED <<now, nowIso, collections, lastModified, githubToken,
                   lastSyncedData, gists, svc, held, memCollections, isSaving,
                   saveTimer, autoSync, sav>>

\* syncWithGist, lines 1595-1597: the answer to the POST of createGist.
SyncCreate(answers) ==
    /\ syn.pc = "create"
    /\ \E answer \in answers :
          IF answer = "ok" /\ \E g \in GistIds : ~gists[g].exists
          THEN /\ \E g \in GistIds : CreateGist(g, syn.data)
               /\ SynExit("return")
          ELSE /\ SynExit("throw")
               /\ UNCHANGED <<gists, gistId>>
    /\ UNCHANGED <<now, nowIso, collections, lastModified, githubToken,
                   lastSyncedData, svc, held, memCollections, isSaving, saveTimer,
                   autoSync, sav>>

\* loadFromGistAndMerge has read the credentials: without them it returns,
\* with them it issues the GET.
LoadCreds ==
    /\ syn.pc = "creds"
    /\ IF LoggedIn
       THEN /\ syn' = [syn EXCEPT !.pc = "get", !.gid = gistId[MgrProc]]
            /\ UNCHANGED isSyncing
       ELSE SynExit("return")
    /\ UNCHANGED <<now, nowIso, storeVars, gists, svc, held, memCollections,
                   isSaving, saveTimer, autoSync, sav>>

\* loadFromGistAndMerge: the answer to the GET.  Any failure is caught and
\* logged there.  Otherwise the merged list replaces the in-memory one and
\* saveCollections arms the timer; then syncWithGist returns.
LoadGet(answers) ==
    LET g == gists[syn.gid] IN
    /\ syn.pc = "get"
    /\ \E answer \in answers :
          IF answer = "ok" /\ g.exists /\ CanParse(g.content)
          THEN /\ memCollections' =
                      LoadFromGistAndMerge(memCollections, JSONParse(g.content))
               /\ saveTimer' = TRUE
               /\ SynExit("merged")
          ELSE /\ SynExit("return")
               /\ UNCHANGED <<memCollections, saveTimer>>
    /\ UNCHANGED <<now, nowIso, storeVars, gists, svc, held, isSaving, autoSync, sav>>

(***************************************************************************)
(* Time.  Tick moves the clock past every timestamp in use and renumbers   *)
(* the timestamps of each kind in their order (0 stays "missing", the      *)
(* epoch stays the epoch).                                                 *)
(***************************************************************************)
IsoOfCols(cols) ==
    UNION {{cols[i].createdAt, cols[i].updatedAt}
           \cup {cols[i].tabs[j].updatedAt : j \in DOMAIN cols[i].tabs}
           : i \in DOMAIN cols}

IsoOfFrame(f) ==
    IsoOfCols(f.local) \cup IsoOfCols(f.rContent.val) \cup IsoOfCols(f.content.val)

IsoInUse ==
    (UNION {IsoOfCols(collections[p]) \cup IsoOfCols(lastSyncedData[p].val)
            : p \in Procs}
     \cup UNION {IsoOfCols(gists[g].content.val) : g \in GistIds}
     \cup UNION {IsoOfFrame(svc[t]) : t \in Tasks}
     \cup IsoOfCols(memCollections) \cup IsoOfCols(syn.data.val)
     \cup UNION {IsoOfCols(sav[s].toSave) : s \in SaveTasks}) \ {0, Epoch}

MsInUse ==
    ({lastModified[p] : p \in Procs} \cup {gists[g].updated_at : g \in GistIds}
     \cup UNION {{svc[t].lm, svc[t].rUpdatedAt} : t \in Tasks}) \ {0}

RankIn(S, v) == IF v = 0 THEN 0 ELSE Cardinality({s \in S : s < v}) + 1

RankIso(S, v) == IF v <= Epoch THEN v ELSE Epoch + RankIn(S, v)

ReCols(S, cols) ==
    [i \in DOMAIN cols |->
        [cols[i] EXCEPT
            !.createdAt = RankIso(S, cols[i].createdAt),
            !.updatedAt = RankIso(S, cols[i].updatedAt),
            !.tabs = [j \in DOMAIN cols[i].tabs |->
                        [cols[i].tabs[j] EXCEPT
                            !.updatedAt = RankIso(S, cols[i].tabs[j].updatedAt)]]]]

ReContent(S, content) == [content EXCEPT !.val = ReCols(S, content.val)]

ReFrame(M, S, f) ==
    [f EXCEPT !.lm = RankIn(M, f.lm),
              !.rUpdatedAt = RankIn(M, f.rUpdatedAt),
              !.local = ReCols(S, f.local),
              !.rContent = ReContent(S, f.rContent),
              !.content = ReContent(S, f.content)]

Tick ==
    LET M == MsInUse
        S == IsoInUse
    IN
    /\ now' = Cardinality(M) + 1
    /\ nowIso' = Epoch + Cardinality(S) + 1
    /\ collections' = [p \in Procs |-> ReCols(S, collections[p])]
    /\ lastModified' = [p \in Procs |-> RankIn(M, lastModified[p])]
    /\ lastSyncedData' = [p \in Procs |-> ReContent(S, lastSyncedData[p])]
    /\ gists' = [g \in GistIds |->
                    [gists[g] EXCEPT !.content = ReContent(S, gists[g].content),
                                     !.updated_at = RankIn(M, gists[g].updated_at)]]
    /\ svc' = [t \in Tasks |-> ReFrame(M, S, svc[t])]
    /\ memCollections' = ReCols(S, memCollections)
    /\ syn' = [syn EXCEPT !.data = ReContent(S, syn.data)]
    /\ sav' = [s \in SaveTasks |-> [sav[s] EXCEPT !.toSave = ReCols(S, sav[s].toSave)]]
    /\ UNCHANGED <<gistId, githubToken, held, isSaving, isSyncing, saveTimer, autoSync>>

(***************************************************************************)
(* Specifications of the service variant                                   *)
(***************************************************************************)
\* Both profiles are connected to the shared gist, which was created at
\* time 1 with an empty file, with text that is no JSON or with the text of
\* an empty list.
\* No manager page is open.
NoManager ==
    /\ memCollections = <<>>
    /\ isSaving = FALSE
    /\ isSyncing = FALSE
    /\ saveTimer = FALSE
    /\ autoSync = FALSE
    /\ syn = SynIdle
    /\ sav = [s \in SaveTasks |-> SavIdle]

\* Nothing is stored yet in either profile but the credentials in `creds`.
FreshProfiles(creds) ==
    /\ now = 1
    /\ nowIso = Epoch + 1
    /\ collections = [p \in Procs |-> <<>>]
    /\ lastModified = [p \in Procs |-> 0]
    /\ gistId = [p \in Procs |-> IF creds THEN SharedGist ELSE NoGist]
    /\ githubToken = [p \in Procs |-> creds]
    /\ lastSyncedData = [p \in Procs |-> EmptyContent]
    /\ svc = [t \in Tasks |-> IdleFrame]
    /\ held = [p \in Procs |-> {}]

Init ==
    /\ FreshProfiles(TRUE)
    /\ \E content \in {EmptyContent, Malformed, DeterministicStringify(<<>>)} :
          gists = [g \in GistIds |->
                      IF g = SharedGist
                      THEN [exists |-> TRUE, content |-> content, updated_at |-> 1]
                      ELSE NoSuchGist]
    /\ NoManager

GetAnswers == {"ok", "error"}
PatchAnswers == {"ok", "rejected", "error"}

\* Two clients, one popup task each.
TwoClients == {"a1", "b1"}

Next ==
    \/ Tick
    \/ \E t \in TwoClients :
          \/ \E id \in IdsOf(ProcOf(t)) : SaveAllTabsToCollection(t, id)
          \/ SyncTrigger(t)
          \/ SyncStart(t)
          \/ SyncFetch(t, GetAnswers)
          \/ SyncLoad(t)
          \/ UpdateGist(t, PatchAnswers)
          \/ SyncReturn(t)

Spec == Init /\ [][Next]_vars

(***************************************************************************)
(* Properties of the service variant                                       *)
(***************************************************************************)
RemoteIds == ColIdsIn(gists[SharedGist].content.val)

\* Task t's PATCH reaches the server in this step.
Patches(t) ==
    /\ svc[t].pc = "patch"
    /\ svc'[t].pc # "patch"
    /\ gists'[SharedGist].content = svc[t].content
    /\ gists'[SharedGist].updated_at = now

\* C1: no data loss across clients.  Once a collection of client B is in
\* the remote blob, and a sync attempt of client A has fetched the blob with
\* that collection in it, the PATCH of that attempt does not leave the remote
\* blob without the collection, unless A ever held it.
C1_NoDataLoss ==
    [][\A id \in IdsOf("B") :
          (id \in RemoteIds /\ id \in svc["a1"].seen /\ id \notin held["A"]
           /\ Patches("a1"))
              => id \in ColIdsIn(gists'[SharedGist].content.val)]_vars

(***************************************************************************)
(* One popup, two overlapping user actions                                 *)
(***************************************************************************)
OnePopup == {"a1", "a2"}

NextPopup ==
    \/ Tick
    \/ \E t \in OnePopup :
          \/ \E id \in ColIds : SaveAllTabsToCollection(t, id)
          \/ SyncStart(t)
          \/ SyncFetch(t, GetAnswers)
          \/ SyncLoad(t)
          \/ UpdateGist(t, PatchAnswers)
          \/ SyncReturn(t)

SpecPopup == Init /\ [][NextPopup]_vars

\* C2: single-flight.  In one process at most one sync attempt is in progress
\* (between issuing its GET and returning) at any time.
C2_SingleFlight ==
    \A t, u \in Tasks :
        (t # u /\ ProcOf(t) = ProcOf(u) /\ InProgress(t)) => ~InProgress(u)

\* C10: when a local save has completed while a sync attempt of the process
\* was merging or pushing, no GET is issued on behalf of that save while
\* another attempt of the process is in progress.
C10_SaveStartsNoSecondSync ==
    [][\A t \in Tasks :
          (svc[t].pc = "start" /\ svc[t].over /\ svc'[t].pc = "fetch")
              => ~\E u \in Tasks \ {t} : ProcOf(u) = ProcOf(t) /\ InProgress(u)]_vars

(***************************************************************************)
(* The manager page of profile A                                           *)
(***************************************************************************)
\* A collection another device has pushed in the manager's format.
Pushed(id) == Col(id, "c", UNDEF, 0, Epoch + 1, <<>>)

\* The page has loaded (init has bound the listeners and has yet to reach
\* setupAutoSync); the profile is logged in or not; the gist g1 is missing
\* or holds an empty file, an empty list or another device's collection.
InitMgr ==
    /\ \E creds \in BOOLEAN : FreshProfiles(creds)
    /\ \E g1 \in {NoSuchGist}
             \cup {[exists |-> TRUE, content |-> content, updated_at |-> 1] :
                     content \in {EmptyContent, DeterministicStringify(<<>>),
                                  DeterministicStringify(<<Pushed(NumCols)>>)}} :
          gists = [g \in GistIds |-> IF g = SharedGist THEN g1 ELSE NoSuchGist]
    /\ memCollections = <<>>
    /\ isSaving = FALSE
    /\ isSyncing = FALSE
    /\ saveTimer = FALSE
    /\ autoSync = TRUE
    /\ syn = SynIdle
    /\ sav = [s \in SaveTasks |-> SavIdle]

MgrGetAnswers == {"ok", "status", "error"}

NextMgr ==
    \/ Tick
    \/ \E id \in IdsOf(MgrProc) : SaveAddCollection(id)
    \/ \E s \in SaveTasks :
          \/ PerformSaveCollections(s)
          \/ SaveCheck(s)
          \/ SaveCreds(s)
          \/ SaveGet(s, MgrGetAnswers)
          \/ SavePatch(s, PatchAnswers)
          \/ SavePost(s, GetAnswers)
    \/ SetupAutoSync
    \/ HandleGistConnect
    \/ LogoutFromGist
    \/ SyncGistId
    \/ FindExistingMipaGist(GetAnswers)
    \/ SyncCreate(GetAnswers)
    \/ LoadCreds
    \/ LoadGet(MgrGetAnswers)

SpecMgr == InitMgr /\ [][NextMgr]_vars

(***************************************************************************)
(* Repeated syncs without user mutation, over a network that answers       *)
(***************************************************************************)
\* A collection as saveToLocalStorage stores it, created at the given time.
Stored(id, createdAt) == Col(id, "c", UNDEF, createdAt, 0, <<>>)

\* What profile A may hold: nothing, one or two collections saved by the
\* popup (sorted, newest first), or one saved by the manager (no createdAt).
LocalsOfA ==
    {<<>>, <<Stored(1, Epoch + 1)>>, <<Pushed(1)>>,
     <<Stored(3, Epoch + 2), Stored(1, Epoch + 1)>>}

\* What profile B may hold.
LocalsOfB == {<<>>, <<Stored(2, Epoch + 1)>>, <<Stored(2, Epoch + 2)>>}

\* The latest time of the initial states.
Horizon == 3

\* The stores of the profiles and the gist hold what earlier saves and syncs
\* may have left; lastModified is stored whenever saveToLocalStorage has run.
Settled(localsA, localsB, stamps, remotes) ==
    /\ now = Horizon + 1
    /\ nowIso = Epoch + Horizon
    /\ \E la \in localsA, lb \in localsB :
          /\ collections = [p \in Procs |-> IF p = "A" THEN la ELSE lb]
          /\ held = [p \in Procs |-> ColIdsIn(collections[p])]
    /\ \E lm \in [Procs -> {0} \cup stamps] :
          /\ \A p \in Procs :
                /\ localsB = {<<>>} /\ p = "B" => lm[p] = 0
                /\ (collections[p] # <<>> /\ collections[p] # <<Pushed(1)>>)
                      => lm[p] > 0
          /\ lastModified = lm
    /\ gistId = [p \in Procs |-> SharedGist]
    /\ githubToken = [p \in Procs |-> TRUE]
    /\ lastSyncedData = [p \in Procs |-> EmptyContent]
    /\ \E content \in remotes, at \in stamps :
          gists = [g \in GistIds |->
                      IF g = SharedGist
                      THEN [exists |-> TRUE, content |-> content, updated_at |-> at]
                      ELSE NoSuchGist]
    /\ svc = [t \in Tasks |-> IdleFrame]
    /\ NoManager

Reliable == {"ok"}

\* The steps of the sync attempts of one client.
Attempts(t) ==
    \/ SyncTrigger(t)
    \/ SyncStart(t)
    \/ SyncFetch(t, Reliable)
    \/ SyncLoad(t)
    \/ UpdateGist(t, Reliable)
    \/ SyncReturn(t)

InitSolo ==
    Settled(LocalsOfA, {<<>>}, 1..Horizon,
            {EmptyContent, Malformed, DeterministicStringify(<<>>),
             DeterministicStringify(<<Stored(1, Epoch + 1)>>),
             DeterministicStringify(<<Stored(2, Epoch + 1)>>),
             DeterministicStringify(<<Pushed(2)>>)})

NextSolo == Tick \/ Attempts("a1")

SpecSolo == InitSolo /\ [][NextSolo]_vars

\* Task t writes to the local store or to the remote in this step.
Writes(t) ==
    \/ svc[t].pc = "load" /\ svc'[t].pc = "saved"
    \/ svc[t].pc = "patch" /\ svc'[t].pc # "patch"

\* C8: no pull/push oscillation.  A single client that only repeats sync
\* attempts, with no user mutation and no other writer, writes to the local
\* store and to the remote finitely often: from some attempt on, no attempt
\* writes.
C8_Quiescence == <>[][~Writes("a1")]_vars

\* C8: after a push the client has come to rest: the gist holds the canonical
\* text of the non-empty local list, lastModified is not older than the gist's
\* timestamp, and an attempt has just found nothing to do.
C8_AtRest ==
    /\ svc["a1"].pc = "idle"
    /\ collections["A"] # <<>>
    /\ lastSyncedData["A"] # EmptyContent
    /\ gists[SharedGist].content =
          DeterministicStringify(
              PrepareCollectionsForSaving(LoadCollections("A"), nowIso, 0))
    /\ lastModified["A"] >= gists[SharedGist].updated_at

(***************************************************************************)
(* Two clients that keep syncing, without user mutation                    *)
(***************************************************************************)
InitFair ==
    Settled({<<Stored(1, Epoch + 1)>>}, {<<Stored(2, Epoch + 1)>>},
            Horizon - 1 .. Horizon, {DeterministicStringify(<<>>)})

NextFair == Tick \/ \E t \in TwoClients : Attempts(t)

\* Time passes, and each client keeps attempting syncs, every request of
\* which is answered and every continuation of which runs.  The continuation
\* after the GET (SyncLoad) is enabled exactly while the call is at "load" and
\* always leaves it, so its weak fairness is stated through that position.
SpecFair ==
    /\ InitFair
    /\ [][NextFair]_vars
    /\ WF_vars(Tick)
    /\ \A t \in TwoClients :
          /\ WF_vars(SyncTrigger(t))
          /\ WF_vars(SyncStart(t))
          /\ WF_vars(SyncFetch(t, Reliable))
          /\ []<>(svc[t].pc # "load")
          /\ WF_vars(UpdateGist(t, Reliable))
          /\ WF_vars(SyncReturn(t))

\* C9: eventual consistency.  Eventually both local stores and the remote
\* blob hold the same set of collection ids, the union of what the two clients
\* held, and stay that way.
C9_EventuallyConsistent ==
    <>[](/\ ColIdsIn(collections["A"]) = held["A"] \cup held["B"]
         /\ ColIdsIn(collections["B"]) = held["A"] \cup held["B"]
         /\ RemoteIds = held["A"] \cup held["B"])

(***************************************************************************)
(* Properties of the manager variant                                       *)
(***************************************************************************)
\* A request of the attempt is on the network.
SynOnNetwork == syn.pc \in {"find", "create", "get"}
SavOnNetwork(s) == sav[s].pc \in {"get", "patch", "post"}

\* C3: in one process the network calls of two sync attempts (a syncWithGist
\* run, a save-triggered push) never interleave: no two attempts have a
\* request on the network at the same time.
C3_NoInterleavedCalls ==
    /\ ~(SynOnNetwork /\ \E s \in SaveTasks : SavOnNetwork(s))
    /\ ~(SavOnNetwork("s1") /\ SavOnNetwork("s2"))

\* C4: the reentrancy flags are always released.  When syncWithGist leaves
\* its try block, however it does, isSyncing is false; when
\* performSaveCollections leaves its try block, isSaving is false; and a flag
\* is never set without a call that will release it.
C4_FlagsReleased ==
    [][/\ (syn.pc # "idle" /\ syn'.pc = "idle") => ~isSyncing'
       /\ \A s \in SaveTasks :
             (sav[s].pc # "idle" /\ sav'[s].pc = "idle") => ~isSaving'
       /\ isSyncing' => syn'.pc # "idle"
       /\ isSaving' => \E s \in SaveTasks : sav'[s].pc # "idle"]_vars

\* C4: syncWithGist has thrown and isSyncing is false; a save is running
\* (isSyncing did not stop it).
C4_ReleasedAfterThrow ==
    /\ syn.pc = "idle"
    /\ syn.exit = "throw"
    /\ ~isSyncing
    /\ \E s \in SaveTasks : sav[s].pc = "check"

\* C6: no spurious pushes.  A save-triggered push issues its PATCH only when
\* the content it wants to write differs from the content the gist holds.
C6_NoSpuriousPush ==
    [][\A s \in SaveTasks :
          (sav[s].pc = "get" /\ sav'[s].pc = "patch" /\ gists[sav[s].gid].exists)
              => DeterministicStringify(sav[s].toSave) # gists[sav[s].gid].content]_vars

\* C7: a sync attempt that takes the merge path persists the merged result
\* locally and writes nothing to the remote blob in that attempt: when the
\* attempt ends, the local store holds the merged collections and the gists
\* are as they were.
C7_MergePersistsLocally ==
    [][(syn.pc = "get" /\ syn'.pc = "idle" /\ syn'.exit = "merged")
          => /\ ColIdsIn(collections'[MgrProc]) = ColIdsIn(memCollections')
             /\ gists' = gists]_vars

\* C11: a local save that races with an in-flight sync is not blocked.  When
\* the save timer fires while syncWithGist is in flight and the call returns,
\* the local store holds the collections that were to be saved.
C11_RacingSavePersists ==
    [][(saveTimer /\ ~saveTimer' /\ isSyncing /\ syn'.dropped)
          => ColIdsIn(collections'[MgrProc]) = ColIdsIn(memCollections)]_vars

(***************************************************************************)
(* One client whose credentials may be missing and whose gist may be       *)
(* deleted on the server                                                   *)
(***************************************************************************)
\* The owner deletes the gist on the server: from now on requests for it are
\* answered 404.
GistDeleted ==
    /\ gists[SharedGist].exists
    /\ gists' = [gists EXCEPT ![SharedGist] = NoSuchGist]
    /\ UNCHANGED <<mgrVars, now, nowIso, storeVars, svc, held>>

\* The profiles are connected to the shared gist or hold no credentials; the
\* gist holds an empty file or the text of an empty list.
InitLost ==
    /\ \E creds \in BOOLEAN : FreshProfiles(creds)
    /\ \E content \in {EmptyContent, DeterministicStringify(<<>>)} :
          gists = [g \in GistIds |->
                      IF g = SharedGist
                      THEN [exists |-> TRUE, content |-> content, updated_at |-> 1]
                      ELSE NoSuchGist]
    /\ NoManager

NextLost ==
    \/ Tick
    \/ GistDeleted
    \/ \E id \in ColIds : SaveAllTabsToCollection("a1", id)
    \/ SyncTrigger("a1")
    \/ SyncStart("a1")
    \/ SyncFetch("a1", GetAnswers)
    \/ SyncLoad("a1")
    \/ UpdateGist("a1", PatchAnswers)
    \/ SyncReturn("a1")

SpecLost == InitLost /\ [][NextLost]_vars

(***************************************************************************)
(* The manager page over a network that answers, every continuation of     *)
(* which runs                                                              *)
(***************************************************************************)
NextRecover ==
    \/ Tick
    \/ \E id \in IdsOf(MgrProc) : SaveAddCollection(id)
    \/ \E s \in SaveTasks :
          \/ PerformSaveCollections(s)
          \/ SaveCheck(s)
          \/ SaveCreds(s)
          \/ SaveGet(s, Reliable)
          \/ SavePatch(s, Reliable)
          \/ SavePost(s, Reliable)
    \/ SetupAutoSync
    \/ HandleGistConnect
    \/ SyncGistId
    \/ FindExistingMipaGist(Reliable)
    \/ SyncCreate(Reliable)
    \/ LoadCreds
    \/ LoadGet(Reliable)

\* Everything but the user's actions (adding a collection, connecting) is
\* bound to happen: timers fire, requests are answered, continuations run.
\* The continuation after the GET of loadFromGistAndMerge (LoadGet) is enabled
\* exactly while the call is at "get" and always leaves it, so its weak
\* fairness is stated through that position.
SpecRecover ==
    /\ InitMgr
    /\ [][NextRecover]_vars
    /\ WF_vars(Tick)
    /\ \A s \in SaveTasks :
          /\ WF_vars(PerformSaveCollections(s))
          /\ WF_vars(SaveCheck(s))
          /\ WF_vars(SaveCreds(s))
          /\ WF_vars(SaveGet(s, Reliable))
          /\ WF_vars(SavePatch(s, Reliable))
          /\ WF_vars(SavePost(s, Reliable))
    /\ WF_vars(SetupAutoSync)
    /\ WF_vars(SyncGistId)
    /\ WF_vars(FindExistingMipaGist(Reliable))
    /\ WF_vars(SyncCreate(Reliable))
    /\ WF_vars(LoadCreds)
    /\ []<>(syn.pc # "get")

\* The gist the profile is connected to holds every collection of the page.
RemoteReflectsSave ==
    /\ LoggedIn
    /\ gists[gistId[MgrProc]].exists
    /\ ColIdsIn(memCollections) \subseteq ColIdsIn(gists[gistId[MgrProc]].content.val)

\* C12: recovery of a dropped sync.  Once a save has been dropped because a
\* sync was in flight, the remote content eventually reflects the state of
\* that save, whether or not the user does anything more.
C12_DroppedSyncRecovered == [](syn.dropped => <>RemoteReflectsSave)

\* The entry condition in GistService.syncWithGist: a call that finds the
\* token or the gistId missing returns at once, with nothing stored and no
\* request issued.
ServiceEntryNoOp ==
    \A t \in Tasks :
        (/\ svc[t].pc = "start"
         /\ svc'[t].pc # "start"
         /\ ~githubToken[ProcOf(t)] \/ gistId[ProcOf(t)] = NoGist)
            => /\ svc'[t].pc = "idle"
               /\ storeVars' = storeVars
               /\ gists' = gists

\* The same in MipaTabManager.syncWithGist, once it has read gistId.
ManagerEntryNoOp ==
    (syn.pc = "gistId" /\ syn'.pc # "gistId" /\ ~LoggedIn)
        => /\ syn'.pc = "idle"
           /\ syn'.exit = "return"
           /\ storeVars' = storeVars
           /\ gists' = gists

\* C13: entry condition.  A sync attempt that finds the credential or the
\* remote handle absent from local storage ends at once as a no-op: it
\* issues no request, changes no stored key and reports no error.
C13_EntryNoOp == [][ServiceEntryNoOp /\ ManagerEntryNoOp]_vars

\* C14: when the GET of the gist is answered 404, the attempt removes the
\* stored gistId and ends: it writes nothing to any gist and leaves the stored
\* collections and lastModified as they were.
C14_NotFoundDropsHandle ==
    [][\A t \in Tasks :
          (svc[t].pc = "fetch" /\ svc'[t].path = "gone")
              => /\ gistId'[ProcOf(t)] = NoGist
                 /\ svc'[t].pc = "idle"
                 /\ gists' = gists
                 /\ collections' = collections
                 /\ lastModified' = lastModified]_vars

\* C14: a profile with stored collections has lost its gistId to a 404.
C14_HandleDropped ==
    /\ svc["a1"].pc = "idle"
    /\ svc["a1"].path = "gone"
    /\ gistId["A"] = NoGist
    /\ githubToken["A"]
    /\ collections["A"] # <<>>
    /\ ~gists[SharedGist].exists

\* C15: after an attempt has dropped the gistId because of a 404 (the only
\* way a profile comes to hold the token without a gistId), the next attempt
\* of the profile recreates the gist: when it ends, a gistId is stored again
\* and names a gist that exists.
C15_NextAttemptRecreates ==
    [][\A t \in Tasks :
          (/\ svc[t].pc = "start"
           /\ svc'[t].pc = "idle"
           /\ githubToken[ProcOf(t)]
           /\ gistId[ProcOf(t)] = NoGist)
              => /\ gistId'[ProcOf(t)] # NoGist
                 /\ gists'[gistId'[ProcOf(t)]].exists]_vars

\* C16: stale handle recovery in GistService.updateGist.  When the PATCH is
\* answered, either the gist now holds the content, or (the gist was missing)
\* a new gist holds the content and its id is stored, or the call has ended
\* with an error, the stored gistId and the gists as they were and
\* lastSyncedData not written.
C16_StaleHandleRecovery ==
    [][\A t \in Tasks :
          LET f == svc[t]
              p == ProcOf(t)
          IN (f.pc = "patch" /\ svc'[t].pc # "patch")
                => \/ /\ gists[f.gid].exists
                      /\ gists'[f.gid].content = f.content
                      /\ gists'[f.gid].updated_at = now
                   \/ /\ ~gists[f.gid].exists
                      /\ gistId'[p] # NoGist
                      /\ gists'[gistId'[p]].exists
                      /\ gists'[gistId'[p]].content = f.content
                   \/ /\ svc'[t].pc = "idle"
                      /\ gistId' = gistId
                      /\ gists' = gists
                      /\ lastSyncedData' = lastSyncedData]_vars

MergeStamps == {0, Epoch + 1, Epoch + 2}

\* The tabs of a collection on one side: tabs 1 and 2, each present or not;
\* the title tells the side's version of a tab from the other side's.
TabLists(side) ==
    {<<>>}
    \cup {<<Tab(i, side, "u", UNDEF, ts)>> : i \in {1, 2}, ts \in MergeStamps}
    \cup {<<Tab(1, side, "u", UNDEF, s), Tab(2, side, "u", UNDEF, ts)>> :
             s \in MergeStamps, ts \in MergeStamps}

\* A collection as the popup stores it (createdAt, no updatedAt) or as the
\* manager page stores it (updatedAt, no createdAt), named after its side.
StampedCol(id, side, ts, tabs) ==
    Col(id, side, UNDEF, IF ts = 0 THEN Epoch + 1 ELSE 0, ts, tabs)

\* The lists of one side: collection 1 with tabs, the last collection
\* without, each present or not.
MergeLists(side) ==
    LET first == {StampedCol(1, side, ts, tabs) :
                     ts \in MergeStamps, tabs \in TabLists(side)}
        last == {StampedCol(NumCols, side, ts, <<>>) : ts \in MergeStamps}
    IN {<<>>} \cup {<<c>> : c \in first \cup last}
              \cup {<<c, d>> : c \in first, d \in last}

\* Profile A stores a local list, which the manager page has loaded, and
\* the gist's file holds the text of a remote list.
InitMerge ==
    /\ now = 1
    /\ nowIso = Epoch + 3
    /\ \E local \in MergeLists("local"), remote \in MergeLists("remote") :
          /\ collections = [p \in Procs |-> IF p = "A" THEN local ELSE <<>>]
          /\ memCollections = local
          /\ held = [p \in Procs |-> IF p = "A" THEN ColIdsIn(local) ELSE {}]
          /\ gists = [g \in GistIds |->
                         IF g = SharedGist
                         THEN [exists |-> TRUE,
                               content |-> DeterministicStringify(remote),
                               updated_at |-> 1]
                         ELSE NoSuchGist]
    /\ lastModified = [p \in Procs |-> 0]
    /\ gistId = [p \in Procs |-> SharedGist]
    /\ githubToken = [p \in Procs |-> TRUE]
    /\ lastSyncedData = [p \in Procs |-> EmptyContent]
    /\ svc = [t \in Tasks |-> IdleFrame]
    /\ isSaving = FALSE
    /\ isSyncing = FALSE
    /\ saveTimer = FALSE
    /\ autoSync = FALSE
    /\ syn = SynIdle
    /\ sav = [s \in SaveTasks |-> SavIdle]

\* The list the merges are given as the local one, and as the remote one.
MergeLocal == collections[MgrProc]
MergeRemote == JSONParse(gists[SharedGist].content)

\* `const merged = this.mergeCollections(currentLocalCollections,
\* remoteCollections)`: the frame keeps the value in `local`.
ApplyMergeCollections ==
    /\ svc["a1"].path = "none"
    /\ svc' = [svc EXCEPT !["a1"] =
                  [IdleFrame EXCEPT !.path = "merge",
                                    !.local = MergeCollections(MergeLocal, MergeRemote)]]
    /\ UNCHANGED <<mgrVars, now, nowIso, storeVars, gists, held>>

\* The merge loop of loadFromGistAndMerge up to `this.collections =
\* mergedCollections`.
ApplyLoadFromGistAndMerge ==
    /\ syn.exit = "none"
    /\ memCollections' = LoadFromGistAndMerge(memCollections, MergeRemote)
    /\ syn' = [syn EXCEPT !.exit = "merged"]
    /\ UNCHANGED <<isSaving, isSyncing, saveTimer, autoSync, sav,
                   now, nowIso, storeVars, gists, svc, held>>

NextMerge ==
    \/ ApplyMergeCollections
    \/ ApplyLoadFromGistAndMerge

SpecMerge == InitMerge /\ [][NextMerge]_vars

\* mergeCollections has returned, and what it returned.
ServiceMerged == svc["a1"].path = "merge"
ServiceResult == svc["a1"].local

\* The merge loop of the manager page has assigned this.collections.
ManagerMerged == syn.exit = "merged"

\* The record of a list with the given id, as a set (empty: none).
RecordsOf(cols, id) == {cols[k] : k \in {i \in DOMAIN cols : cols[i].id = id}}

\* Of every two records with one id, one of the local and one of the remote
\* list, the merged list holds the one with the strictly later updatedAt, as
\* it was, and no other record of that id.
NewerWinsIn(merged) ==
    \A i \in DOMAIN MergeLocal, j \in DOMAIN MergeRemote :
        LET a == MergeLocal[i]
            b == MergeRemote[j]
        IN a.id = b.id =>
              /\ a.updatedAt > b.updatedAt => RecordsOf(merged, a.id) = {a}
              /\ b.updatedAt > a.updatedAt => RecordsOf(merged, b.id) = {b}

\* C18: merge newer-wins.  When the local and the remote list hold a
\* collection of one id and one of the two has the strictly later updatedAt
\* (none counts as the earliest), the merged list holds that record, equal
\* to what it was, whichever side it came from; for both merges.
C18_NewerWins ==
    /\ ServiceMerged => NewerWinsIn(ServiceResult)
    /\ ManagerMerged => NewerWinsIn(memCollections)

\* The merged list holds the ids of the two lists and no other; and when the
\* two lists share no id, it holds each of their records, as it was, and
\* nothing else.
UnionIn(merged) ==
    LET both == MergeLocal \o MergeRemote IN
    /\ ColIdsIn(merged) = ColIdsIn(MergeLocal) \cup ColIdsIn(MergeRemote)
    /\ ColIdsIn(MergeLocal) \cap ColIdsIn(MergeRemote) = {}
          => /\ Len(merged) = Len(MergeLocal) + Len(MergeRemote)
             /\ \A i \in DOMAIN both : RecordsOf(merged, both[i].id) = {both[i]}

\* C19: merge union at collection level.  The merged list holds every
\* collection id of the local or the remote list and no other (so a
\* collection only the remote list holds is in it); lists with disjoint ids
\* give exactly |L|+|R| collections, each unchanged; for both merges.
C19_CollectionUnion ==
    /\ ServiceMerged => UnionIn(ServiceResult)
    /\ ManagerMerged => UnionIn(memCollections)

\* The ids of the tabs of a collection.
TabIdsIn(col) == {col.tabs[j].id : j \in DOMAIN col.tabs}

\* For every collection both lists hold, the merged collection holds every
\* tab id of either version, and of a tab both versions hold it holds the
\* updatedAt of the strictly later one.
TabUnionIn(merged) ==
    \A i \in DOMAIN MergeLocal, j \in DOMAIN MergeRemote :
        LET a == MergeLocal[i]
            b == MergeRemote[j]
        IN a.id = b.id =>
              \A m \in RecordsOf(merged, a.id) :
                  /\ TabIdsIn(a) \cup TabIdsIn(b) \subseteq TabIdsIn(m)
                  /\ \A x \in DOMAIN a.tabs, y \in DOMAIN b.tabs, z \in DOMAIN m.tabs :
                        (a.tabs[x].id = b.tabs[y].id /\ m.tabs[z].id = a.tabs[x].id)
                           => /\ a.tabs[x].updatedAt > b.tabs[y].updatedAt
                                    => m.tabs[z].title = a.tabs[x].title
                              /\ b.tabs[y].updatedAt > a.tabs[x].updatedAt
                                    => m.tabs[z].title = b.tabs[y].title

\* C20: merge union at tab level.  When both lists hold a collection of one
\* id, the merged collection holds every tab id of its local or its remote
\* version, and a tab both versions hold is kept in the version with the
\* later updatedAt; for both merges.
C20_TabUnion ==
    /\ ServiceMerged => TabUnionIn(ServiceResult)
    /\ ManagerMerged => TabUnionIn(memCollections)

(***************************************************************************)
(* A popup and the manager page of one profile on a gist whose file holds  *)
(* text that is no collection list                                         *)
(***************************************************************************)
\* The profile is connected; the gist's file was edited by hand into text
\* that is no JSON or into JSON that is no list; the manager page has loaded.
InitGarbled ==
    /\ FreshProfiles(TRUE)
    /\ \E content \in {Malformed, NotAList} :
          gists = [g \in GistIds |->
                      IF g = SharedGist
                      THEN [exists |-> TRUE, content |-> content, updated_at |-> 1]
                      ELSE NoSuchGist]
    /\ memCollections = <<>>
    /\ isSaving = FALSE
    /\ isSyncing = FALSE
    /\ saveTimer = FALSE
    /\ autoSync = TRUE
    /\ syn = SynIdle
    /\ sav = [s \in SaveTasks |-> SavIdle]

NextGarbled ==
    \/ Tick
    \/ \E id \in IdsOf("B") : SaveAllTabsToCollection("a1", id)
    \/ SyncTrigger("a1")
    \/ SyncStart("a1")
    \/ SyncFetch("a1", GetAnswers)
    \/ SyncLoad("a1")
    \/ UpdateGist("a1", PatchAnswers)
    \/ SyncReturn("a1")
    \/ \E id \in IdsOf(MgrProc) : SaveAddCollection(id)
    \/ \E s \in SaveTasks :
          \/ PerformSaveCollections(s)
          \/ SaveCheck(s)
          \/ SaveCreds(s)
          \/ SaveGet(s, MgrGetAnswers)
          \/ SavePatch(s, {"ok", "error"})
    \/ SetupAutoSync
    \/ SyncGistId
    \/ LoadCreds
    \/ LoadGet(MgrGetAnswers)

SpecGarbled == InitGarbled /\ [][NextGarbled]_vars

\* The gist's text is there and is no collection list.
Garbled(content) == content \in {Malformed, NotAList}

\* No step of this kind touches the local store, the in-memory list or the
\* gists, and none arms a save.
NothingWritten ==
    /\ collections' = collections
    /\ lastModified' = lastModified
    /\ memCollections' = memCollections
    /\ saveTimer' = saveTimer
    /\ gists' = gists

\* C21 (as amended): an attempt that sets out to merge text that is no
\* collection list (GistService.syncWithGist when the remote is newer than
\* lastModified, loadFromGistAndMerge always) ends there: the stored
\* collections, lastModified and the in-memory collections stay as they
\* are, no PATCH is issued and no save is armed.
C21_ParseFailureAborts ==
    [][/\ \A t \in Tasks :
             (/\ svc[t].pc = "load"
              /\ svc'[t].pc # "load"
              /\ Garbled(svc[t].rContent)
              /\ RemoteIsNewer(svc[t].rUpdatedAt, svc[t].lm))
                => svc'[t].pc = "idle" /\ NothingWritten
       /\ (/\ syn.pc = "get"
           /\ syn'.pc = "idle"
           /\ gists[syn.gid].exists
           /\ Garbled(gists[syn.gid].content))
             => syn'.exit = "return" /\ NothingWritten]_vars

\* C21: both merges have met garbled text and ended: the manager page's call
\* has returned with the gist still garbled, and the popup's attempt went
\* back to idle from its merge branch.
C21_MergeAborted ==
    /\ Garbled(gists[SharedGist].content)
    /\ syn.exit = "return"
    /\ ~autoSync
    /\ svc["a1"].pc = "idle"
    /\ svc["a1"].path = "garbled"

\* C21 (as stated): no attempt that has fetched text that is no collection
\* list goes on to write the remote.
C21_NoRemoteWriteOnGarbled ==
    [][\A t \in Tasks :
          (svc[t].pc = "load" /\ svc'[t].pc # "load" /\ Garbled(svc[t].rContent))
             => svc'[t].pc # "patch"]_vars

(***************************************************************************)
(* MipaPopup.addTabToCollection of js/popup.js: the tab is pushed on the   *)
(* in-memory collection, chrome.storage.local.set is called and not        *)
(* awaited, and the read of the credentials is issued in the same turn;    *)
(* its continuation PATCHes the in-memory list.  chrome.storage serves the *)
(* two calls in the order they were issued.  The frame's `path` is         *)
(* history: the write is pending, or was written, or failed.               *)
(***************************************************************************)
\* Lines 168-217 up to the return: both storage calls are in flight.
AddTabToCollection(t, id) ==
    LET p == ProcOf(t)
        mem == [i \in DOMAIN collections[p] |->
                   IF collections[p][i].id = id
                   THEN [collections[p][i] EXCEPT
                            !.tabs = Append(@, Tab(1, "t", "u", "t", 0))]
                   ELSE collections[p][i]]
    IN /\ svc[t].pc = "idle"
       /\ \E i \in DOMAIN collections[p] :
             collections[p][i].id = id /\ collections[p][i].tabs = <<>>
       /\ svc' = [svc EXCEPT ![t] =
                     [IdleFrame EXCEPT !.pc = "both", !.local = mem, !.path = "pending"]]
       /\ UNCHANGED <<mgrVars, now, nowIso, storeVars, gists, held>>

\* Line 201: the set is served: `collections` alone is written, or the write
\* is rejected and the rejection is logged.
PopupSetDone(t, outcomes) ==
    LET p == ProcOf(t)
        f == svc[t]
    IN /\ f.pc = "both"
       /\ \E outcome \in outcomes :
             IF outcome = "ok"
             THEN /\ collections' = [collections EXCEPT ![p] = f.local]
                  /\ held' = [held EXCEPT ![p] = @ \cup ColIdsIn(f.local)]
                  /\ svc' = [svc EXCEPT ![t] = [f EXCEPT !.pc = "creds", !.path = "written"]]
             ELSE /\ svc' = [svc EXCEPT ![t] = [f EXCEPT !.pc = "creds", !.path = "failed"]]
                  /\ UNCHANGED <<collections, held>>
       /\ UNCHANGED <<mgrVars, now, nowIso, lastModified, gistId, githubToken,
                      lastSyncedData, gists>>

\* Lines 204-208: the credentials have been read; with both, updateGist
\* issues the PATCH of the in-memory list as it is.
PopupCreds(t) ==
    LET p == ProcOf(t)
        f == svc[t]
    IN /\ f.pc = "creds"
       /\ svc' = [svc EXCEPT ![t] =
                     IF githubToken[p] /\ gistId[p] # NoGist
                     THEN [f EXCEPT !.pc = "ppatch", !.gid = gistId[p],
                                    !.content = DeterministicStringify(f.local)]
                     ELSE IdleFrame]
       /\ UNCHANGED <<mgrVars, now, nowIso, storeVars, gists, held>>

\* MipaPopup.updateGist, lines 288-316: the answer to the PATCH; after a 404
\* it issues the POST of createGist; another refusal is thrown and logged.
PopupPatch(t, answers) ==
    LET f == svc[t] IN
    /\ f.pc = "ppatch"
    /\ \E answer \in answers :
          IF answer = "ok" /\ gists[f.gid].exists
          THEN /\ gists' = [gists EXCEPT ![f.gid] =
                      [exists |-> TRUE, content |-> f.content, updated_at |-> now]]
               /\ svc' = [svc EXCEPT ![t] = IdleFrame]
          ELSE IF answer = "ok"
          THEN /\ svc' = [svc EXCEPT ![t] = [f EXCEPT !.pc = "ppost"]]
               /\ UNCHANGED gists
          ELSE /\ svc' = [svc EXCEPT ![t] = IdleFrame]
               /\ UNCHANGED gists
    /\ UNCHANGED <<mgrVars, now, nowIso, storeVars, held>>

\* MipaPopup.createGist, lines 261-285, and the write of the new gistId.
PopupPost(t, answers) ==
    LET f == svc[t] IN
    /\ f.pc = "ppost"
    /\ \E answer \in answers :
          IF answer = "ok" /\ \E g \in GistIds : ~gists[g].exists
          THEN \E g \in GistIds : CreateGist(g, f.content)
          ELSE UNCHANGED <<gists, gistId>>
    /\ svc' = [svc EXCEPT ![t] = IdleFrame]
    /\ UNCHANGED <<mgrVars, now, nowIso, collections, lastModified, githubToken,
                   lastSyncedData, held>>

\* One profile with the popup of src/js (task a1) and the popup of js/ (task
\* a2); the gist may be deleted on the server.
NextOrder ==
    \/ NextLost
    \/ \E id \in IdsOf("A") : AddTabToCollection("a2", id)
    \/ PopupSetDone("a2", {"ok", "rejected"})
    \/ PopupCreds("a2")
    \/ PopupPatch("a2", GetAnswers)
    \/ PopupPost("a2", GetAnswers)

SpecOrder == InitLost /\ [][NextOrder]_vars

\* The attempt has a read of the local store or a request in flight.
ReadingOrCalling(t) ==
    svc[t].pc \in {"fetch", "load", "patch", "both", "creds", "ppatch", "ppost"}

\* C22: ordering of save and sync.  While a sync attempt that a local save
\* triggered has a read of the local store or a request in flight, the
\* storage write of that save has completed (it is neither pending nor
\* failed).
C22_SaveBeforeSync ==
    \A t \in Tasks : ReadingOrCalling(t) => svc[t].path \notin {"pending", "failed"}

\* C23: lastModified tracks every local persist.  Every step that writes a
\* list with other collection ids under the `collections` key writes the
\* current time under `lastModified` in the same storage operation.
C23_LastModifiedTracksPersist ==
    [][\A p \in Procs :
          ColIdsIn(collections'[p]) # ColIdsIn(collections[p])
             => lastModified'[p] = now]_vars

(***************************************************************************)
(* StorageService as functions: prepareCollectionsForSaving,               *)
(* saveToLocalStorage and loadCollections applied to an in-memory list.    *)
(***************************************************************************)
\* The random part of a synthesized tab id (`tab-<ms>-<random>`); the ids of
\* the model's own tabs are positive.
FreshTabIds == {-1, -2}

\* Tabs as a caller may hand them over: with or without id, title,
\* description and updatedAt, the description equal to the title or not.
TabVariants ==
    {Tab(id, title, "u", description, ts) :
        id \in {0, 1}, title \in {UNDEF, "t", "Untitled"},
        description \in {UNDEF, "", "t", "d", "Untitled"}, ts \in {0, Epoch + 1}}
    \cup {Tab(1, "t", UNDEF, UNDEF, 0)}

\* Collections with or without name, title, createdAt and updatedAt.
ColVariants(tabs) ==
    {Col(1, name, title, createdAt, ts, tabs) :
        name \in {UNDEF, "c"}, title \in {UNDEF, "x"},
        createdAt \in {0, Epoch + 1}, ts \in {0, Epoch + 1}}

\* The in-memory lists: one collection in every variant, one collection
\* with a tab in every variant, and lists of two collections, with two tabs
\* each or none, in either order and with every order of their createdAt.
CanonInputs ==
    LET two == <<Tab(1, "t", "u", UNDEF, 0), Tab(2, "s", "u", "d", 0)>>
    IN {<<>>}
       \cup {<<c>> : c \in ColVariants(two)}
       \cup {<<Col(1, "c", UNDEF, Epoch + 1, 0, <<tab>>)>> : tab \in TabVariants}
       \cup {<<Col(i, "c", UNDEF, ci, 0, tabs), Col(NumCols + 1 - i, "d", UNDEF, cj, 0, tabs)>> :
                i \in {1, NumCols}, ci \in {0, Epoch + 1, Epoch + 2},
                cj \in {0, Epoch + 1, Epoch + 2}, tabs \in {<<>>, two}}

\* What the store holds at the start: nothing, or a list written as it was
\* in memory (js/popup.js:201, js/mipa.js:72): a collection without
\* createdAt before one with it.
StoredBefore ==
    {<<>>,
     <<Col(1, "c", UNDEF, 0, Epoch + 1, <<>>), Col(NumCols, "d", UNDEF, Epoch + 1, 0, <<>>)>>}

\* Two callers of profile A and the manager page, whose save timer is armed,
\* hold the same in-memory list.
InitCanon ==
    /\ now = 1
    /\ nowIso = Epoch + 3
    /\ \E stored \in StoredBefore :
          /\ collections = [p \in Procs |-> IF p = "A" THEN stored ELSE <<>>]
          /\ held = [p \in Procs |-> IF p = "A" THEN ColIdsIn(stored) ELSE {}]
    /\ lastModified = [p \in Procs |-> 0]
    /\ gistId = [p \in Procs |-> NoGist]
    /\ githubToken = [p \in Procs |-> FALSE]
    /\ lastSyncedData = [p \in Procs |-> EmptyContent]
    /\ gists = [g \in GistIds |-> NoSuchGist]
    /\ \E X \in CanonInputs :
          /\ svc = [t \in Tasks |->
                       IF ProcOf(t) = "A" THEN [IdleFrame EXCEPT !.local = X]
                       ELSE IdleFrame]
          /\ memCollections = X
    /\ isSaving = FALSE
    /\ isSyncing = FALSE
    /\ saveTimer = TRUE
    /\ autoSync = FALSE
    /\ syn = SynIdle
    /\ sav = [s \in SaveTasks |-> SavIdle]

\* `content = deterministicStringify(prepareCollectionsForSaving(list))`.
Canonicalize(t) ==
    /\ svc[t].path = "none"
    /\ \E fresh \in FreshTabIds :
          svc' = [svc EXCEPT ![t] =
                     [@ EXCEPT !.path = "canon",
                               !.content = DeterministicStringify(
                                   PrepareCollectionsForSaving(svc[t].local, nowIso, fresh))]]
    /\ UNCHANGED <<mgrVars, now, nowIso, storeVars, gists, held>>

\* prepareCollectionsForSaving applied to its own output.
Recanonicalize(t) ==
    /\ svc[t].path = "canon"
    /\ \E fresh \in FreshTabIds :
          svc' = [svc EXCEPT ![t] =
                     [@ EXCEPT !.path = "recanon",
                               !.local = PrepareCollectionsForSaving(
                                             JSONParse(svc[t].content), nowIso, fresh)]]
    /\ UNCHANGED <<mgrVars, now, nowIso, storeVars, gists, held>>

\* StorageService.saveToLocalStorage(list, sort): the write is made, and the
\* list written is returned, or the write is rejected and the call throws.
SaveList(t, outcomes) ==
    LET p == ProcOf(t) IN
    /\ svc[t].path = "none"
    /\ \E sort \in BOOLEAN, fresh \in FreshTabIds, outcome \in outcomes :
          LET saved == SaveToLocalStorageFresh(svc[t].local, sort, now, fresh) IN
          IF outcome = "ok"
          THEN /\ StorageSet(p, saved)
               /\ svc' = [svc EXCEPT ![t] =
                      [@ EXCEPT !.path = "saved",
                                !.content = DeterministicStringify(saved.collections)]]
          ELSE /\ svc' = [svc EXCEPT ![t] = [@ EXCEPT !.path = "threw"]]
               /\ UNCHANGED <<collections, lastModified, held>>
    /\ UNCHANGED <<mgrVars, now, nowIso, gistId, githubToken, lastSyncedData, gists>>

\* StorageService.loadCollections: the sorted copy of what is stored, or an
\* empty list when the read fails (the error is caught and logged).
LoadList(t, outcomes) ==
    LET p == ProcOf(t) IN
    /\ svc[t].path = "none"
    /\ \E outcome \in outcomes :
          svc' = [svc EXCEPT ![t] =
                     IF outcome = "ok"
                     THEN [@ EXCEPT !.path = "loaded", !.local = LoadCollections(p)]
                     ELSE [@ EXCEPT !.path = "unread", !.local = <<>>]]
    /\ UNCHANGED <<mgrVars, now, nowIso, storeVars, gists, held>>

\* C24: canonicalization idempotence.  prepareCollectionsForSaving applied
\* to its own output returns a list equal to that output.
C24_Idempotent ==
    \A t \in Tasks :
        svc[t].path = "recanon" => svc[t].local = JSONParse(svc[t].content)

NextCanon ==
    \/ Tick
    \/ PerformSaveCollections("s1")
    \/ \E t \in {"a1", "a2"} :
          \/ Canonicalize(t)
          \/ Recanonicalize(t)
          \/ SaveList(t, {"ok", "rejected"})
          \/ LoadList(t, {"ok", "error"})

SpecCanon == InitCanon /\ [][NextCanon]_vars

\* Between a list and its canonical form: a tab whose description equals
\* its title has no description afterwards, and a non-empty description
\* that differs from the title is kept as it is.
Elided(input, output) ==
    \A i \in DOMAIN input : \A j \in DOMAIN input[i].tabs :
        LET tab == input[i].tabs[j]
            out == output[i].tabs[j]
        IN /\ tab.description = tab.title => out.description = UNDEF
           /\ (Truthy(tab.description) /\ tab.description # tab.title)
                 => out.description = tab.description

\* C25: description elision.  After either prepareCollectionsForSaving (of
\* StorageService, of the manager page) a tab whose description equals its
\* title has no description key, and a tab with a non-empty description
\* other than its title keeps that description.
C25_DescriptionElided ==
    /\ \A t \in Tasks :
          svc[t].path = "canon" => Elided(svc[t].local, JSONParse(svc[t].content))
    /\ \A s \in SaveTasks :
          sav[s].pc = "check" => Elided(memCollections, sav[s].toSave)

\* C26: canonicalization is deterministic.  Two independent computations of
\* the text of one in-memory list, whenever they are made, give the same
\* text.
C26_Deterministic ==
    (svc["a1"].path = "canon" /\ svc["a2"].path = "canon"
        /\ svc["a1"].local = svc["a2"].local)
       => svc["a1"].content = svc["a2"].content

\* C27: round trip.  A load of the list a save has stored, whether the save
\* sorted or not, returns the canonical form of the saved list (with the
\* time and the tab ids of some run), sorted descending by createdAt.
C27_RoundTrip ==
    [][\A t \in Tasks, u \in Tasks :
          (/\ svc[u].path = "saved"
           /\ collections[ProcOf(u)] = JSONParse(svc[u].content)
           /\ ProcOf(t) = ProcOf(u)
           /\ svc[t].path = "none"
           /\ svc'[t].path = "loaded")
             => \E iso \in Epoch + 1 .. nowIso, fresh \in FreshTabIds :
                   svc'[t].local =
                      SortCollections(
                          PrepareCollectionsForSaving(svc[u].local, iso, fresh))]_vars

\* C27: a list of two collections was saved without sorting, and the load
\* that followed returned it in another order than it is stored in.
C27_LoadedAfterUnsortedSave ==
    /\ svc["a1"].path = "saved"
    /\ svc["a2"].path = "loaded"
    /\ collections["A"] = JSONParse(svc["a1"].content)
    /\ Len(svc["a2"].local) = Len(svc["a1"].local)
    /\ Len(svc["a2"].local) > 1
    /\ svc["a2"].local # collections["A"]

\* The loaded list holds, for every collection of the saved one, a
\* collection of that id with the same updatedAt and the same tabs in the
\* same order, each with its updatedAt.
KeepsStamps(saved, loaded) ==
    \A i \in DOMAIN saved :
        \E k \in DOMAIN loaded :
            /\ loaded[k].id = saved[i].id
            /\ loaded[k].updatedAt = saved[i].updatedAt
            /\ Len(loaded[k].tabs) = Len(saved[i].tabs)
            /\ \A j \in DOMAIN saved[i].tabs :
                  /\ saved[i].tabs[j].id # 0 => loaded[k].tabs[j].id = saved[i].tabs[j].id
                  /\ loaded[k].tabs[j].url = OrElse(saved[i].tabs[j].url, "")
                  /\ loaded[k].tabs[j].updatedAt = saved[i].tabs[j].updatedAt

\* C28: no loss through the canonical form.  A load of the list a save has
\* stored returns every collection with its updatedAt and with its tabs in
\* their order, each tab with its updatedAt.
C28_NoFieldLost ==
    [][\A t \in Tasks, u \in Tasks :
          (/\ svc[u].path = "saved"
           /\ collections[ProcOf(u)] = JSONParse(svc[u].content)
           /\ ProcOf(t) = ProcOf(u)
           /\ svc[t].path = "none"
           /\ svc'[t].path = "loaded")
             => KeepsStamps(svc[u].local, svc'[t].local)]_vars

\* `sorted` holds the collections of `stored`, descending by createdAt (none
\* is the earliest), those of one createdAt in the order `stored` has them.
SortedCopyOf(sorted, stored) ==
    /\ Len(sorted) = Len(stored)
    /\ \A i \in DOMAIN stored : \E k \in DOMAIN sorted : sorted[k] = stored[i]
    /\ \A k \in DOMAIN sorted, l \in DOMAIN sorted :
          k < l => sorted[k].createdAt >= sorted[l].createdAt
    /\ \A i \in DOMAIN stored, j \in DOMAIN stored :
          (i < j /\ stored[i].createdAt = stored[j].createdAt)
             => \E k \in DOMAIN sorted, l \in DOMAIN sorted :
                   k < l /\ sorted[k] = stored[i] /\ sorted[l] = stored[j]

\* C29: load.  loadCollections leaves the store as it is and returns to its
\* caller (it does not throw) the stored collections sorted descending by
\* createdAt, ties in their stored order, or an empty list when nothing is
\* stored or the read fails.
C29_LoadSortedOrEmpty ==
    [][\A t \in Tasks :
          (svc[t].path = "none" /\ svc'[t].path \in {"loaded", "unread"})
             => /\ collections' = collections
                /\ lastModified' = lastModified
                /\ IF svc'[t].path = "loaded"
                   THEN SortedCopyOf(svc'[t].local, collections[ProcOf(t)])
                   ELSE svc'[t].local = <<>>]_vars

\* C29: a load has returned a list of two collections in another order than
\* the stored one, which has a collection without createdAt first.
C29_LoadedReordered ==
    \E t \in Tasks :
        /\ svc[t].path = "loaded"
        /\ Len(svc[t].local) > 1
        /\ collections[ProcOf(t)][1].createdAt = 0
        /\ svc[t].local # collections[ProcOf(t)]
        /\ SortedCopyOf(svc[t].local, collections[ProcOf(t)])

(***************************************************************************)
(* Rejected storage writes.  chrome.storage.local.set may reject (quota,   *)
(* a closed context).  The frame's path records how the call that awaited  *)
(* the write ended: "threw" when the rejection reached its caller,         *)
(* "unsaved" when syncWithGist caught it and returned null, "swallowed"    *)
(* when saveCollections caught it and returned as after a save.            *)
(***************************************************************************)
\* GistService.syncWithGist, lines 61-82: the remote is newer and parses,
\* the write of saveToLocalStorage(merged) is rejected; the catch of line
\* 79 logs the rejection and the call returns null, the value it returns
\* when no sync was to be made.
SyncLoadRejected(t) ==
    LET f == svc[t] IN
    /\ f.pc = "load"
    /\ ~IsEmptyContent(f.rContent)
    /\ RemoteIsNewer(f.rUpdatedAt, f.lm)
    /\ CanParse(f.rContent)
    /\ svc' = [svc EXCEPT ![t] = [IdleFrame EXCEPT !.path = "unsaved"]]
    /\ UNCHANGED <<mgrVars, now, nowIso, storeVars, gists, held>>

\* The manager page of js/mipa.js: createCollectionFromForm (lines
\* 1788-1798) pushes a collection without timestamps onto the in-memory
\* list, which is the stored one, and calls saveCollections, which awaits
\* the write of `collections`.
SaveCollections(t, id) ==
    LET p == ProcOf(t) IN
    /\ svc[t].pc = "idle"
    /\ id \notin held[p]
    /\ svc' = [svc EXCEPT ![t] =
                  [IdleFrame EXCEPT !.pc = "lset", !.path = "pending",
                       !.local = Append(collections[p], Col(id, "c", UNDEF, 0, 0, <<>>))]]
    /\ UNCHANGED <<mgrVars, now, nowIso, storeVars, gists, held>>

\* saveCollections, lines 69-92: the write is served and the call goes on
\* to read the credentials, or it is rejected: the catch of line 88 logs the
\* rejection and the call returns as it does after a save.
SaveCollectionsSet(t, outcomes) ==
    LET p == ProcOf(t)
        f == svc[t]
    IN /\ f.pc = "lset"
       /\ \E outcome \in outcomes :
             IF outcome = "ok"
             THEN /\ collections' = [collections EXCEPT ![p] = f.local]
                  /\ held' = [held EXCEPT ![p] = @ \cup ColIdsIn(f.local)]
                  /\ svc' = [svc EXCEPT ![t] = [f EXCEPT !.pc = "creds", !.path = "written"]]
             ELSE /\ svc' = [svc EXCEPT ![t] = [IdleFrame EXCEPT !.path = "swallowed"]]
                  /\ UNCHANGED <<collections, held>>
       /\ UNCHANGED <<mgrVars, now, nowIso, lastModified, gistId, githubToken,
                      lastSyncedData, gists>>

\* Profile A with the popup of src/js (task a1) and the manager page of js/
\* (task a2), whose updateGist and createGist are those of the popup of
\* js/; a caller of StorageService.saveToLocalStorage in profile B (b1).
NextFail ==
    \/ NextLost
    \/ SyncLoadRejected("a1")
    \/ \E id \in IdsOf("A") : SaveCollections("a2", id)
    \/ SaveCollectionsSet("a2", {"ok", "rejected"})
    \/ PopupCreds("a2")
    \/ PopupPatch("a2", GetAnswers)
    \/ PopupPost("a2", GetAnswers)
    \/ SaveList("b1", {"ok", "rejected"})

SpecFail == InitLost /\ [][NextFail]_vars

WriteRejected(t) == svc[t].path \in {"threw", "unsaved", "swallowed"}
RaisedToCaller(t) == svc[t].path = "threw"

\* C30: a failed local storage write is an error to the caller.  A call of
\* a save, or of a sync that has a merge result to persist, whose storage
\* write was rejected ends with an error raised to its caller; it does not
\* return as a save or a sync that succeeded or had nothing to do.
C30_WriteFailureObservable ==
    \A t \in Tasks : WriteRejected(t) => RaisedToCaller(t)

(***************************************************************************)
(* URLs and the duplicate checks.  A URL is the string the tab carries;    *)
(* `new URL(url)` splits the strings below into origin, pathname (the      *)
(* segment after the first slash and whether a slash ends it), search and  *)
(* hash, and throws for every other string.                                *)
(***************************************************************************)
UrlParts ==
    [u \in {"https://x.com/a", "https://x.com/a?utm=1", "https://x.com/a#frag",
            "https://x.com/a/", "https://x.com/b"} |->
        [origin |-> "https://x.com",
         segment |-> IF u = "https://x.com/b" THEN "b" ELSE "a",
         slash |-> u = "https://x.com/a/",
         search |-> IF u = "https://x.com/a?utm=1" THEN "?utm=1" ELSE "",
         hash |-> IF u = "https://x.com/a#frag" THEN "#frag" ELSE ""]]

\* The URLs of the browser's tabs, and a text of the edit form that is none.
TabUrls == DOMAIN UrlParts
NoScheme == "x.com/a"

ParsesAsUrl(url) == url \in DOMAIN UrlParts
Pathname(parts) == <<parts.segment, parts.slash>>
Href(parts) == <<parts.origin, Pathname(parts), parts.search, parts.hash>>

\* MipaUtils.compareUrls.
CompareUrls(url1, url2, strict) ==
    IF ~Truthy(url1) \/ ~Truthy(url2) THEN url1 = url2
    ELSE IF strict THEN url1 = url2
    ELSE IF ParsesAsUrl(url1) /\ ParsesAsUrl(url2)
    THEN <<UrlParts[url1].origin, Pathname(UrlParts[url1])>>
            = <<UrlParts[url2].origin, Pathname(UrlParts[url2])>>
    ELSE url1 = url2

\* MipaUtils.isTabInCollection.
IsTabInCollection(collection, url) ==
    \E k \in DOMAIN collection.tabs : CompareUrls(collection.tabs[k].url, url, FALSE)

\* normalizeUrl of MipaTabManager.isTabUrlExists (part_004): the href
\* without the hash, or the string itself when it is no URL.
MgrNormalizeUrl(url) ==
    IF ParsesAsUrl(url) THEN Href([UrlParts[url] EXCEPT !.hash = ""]) ELSE <<url>>

\* normalizeUrl of MipaTabManager.isTabUrlExists (js/mipa.js): the href
\* without the hash and without a slash at the end of the pathname.
LegacyNormalizeUrl(url) ==
    IF ParsesAsUrl(url)
    THEN Href([UrlParts[url] EXCEPT !.hash = "", !.slash = FALSE])
    ELSE <<url>>

\* MipaTabManager.isTabUrlExists of part_004 and of js/mipa.js.
MgrIsTabUrlExists(cols, collectionId, url) ==
    \E i \in DOMAIN cols :
        /\ cols[i].id = collectionId
        /\ \A h \in 1 .. i - 1 : cols[h].id # collectionId
        /\ \E k \in DOMAIN cols[i].tabs :
              MgrNormalizeUrl(cols[i].tabs[k].url) = MgrNormalizeUrl(url)

LegacyIsTabUrlExists(cols, collectionId, url) ==
    \E i \in DOMAIN cols :
        /\ cols[i].id = collectionId
        /\ \A h \in 1 .. i - 1 : cols[h].id # collectionId
        /\ \E k \in DOMAIN cols[i].tabs :
              LegacyNormalizeUrl(cols[i].tabs[k].url) = LegacyNormalizeUrl(url)

\* The number of tabs a collection is let grow to.
MaxTabs == 2

\* `tab-${Date.now()}`: an id no tab of the lists has.
FreshTabId(cols) ==
    LET ids == UNION {{cols[i].tabs[k].id : k \in DOMAIN cols[i].tabs} : i \in DOMAIN cols}
    IN IF ids = {} THEN 1 ELSE 1 + CHOOSE m \in ids : \A n \in ids : n <= m

\* collections[index].tabs.push(tabData) for the first collection of the id.
PushTab(cols, collectionId, tab) ==
    [i \in DOMAIN cols |->
        IF cols[i].id = collectionId /\ \A h \in 1 .. i - 1 : cols[h].id # collectionId
        THEN [cols[i] EXCEPT !.tabs = Append(@, tab)]
        ELSE cols[i]]

HasRoom(cols, collectionId) ==
    \E i \in DOMAIN cols : cols[i].id = collectionId /\ Len(cols[i].tabs) < MaxTabs

\* MipaTabManager.addTabToCollection of part_004, lines 893-925: the tab of
\* the browser is pushed, stamped, unless isTabUrlExists finds its URL;
\* saveCollections arms the timer.
MgrAddTabToCollection(id, url) ==
    /\ HasRoom(memCollections, id)
    /\ IF MgrIsTabUrlExists(memCollections, id, url)
       THEN UNCHANGED <<memCollections, saveTimer>>
       ELSE /\ memCollections' =
                  [i \in DOMAIN memCollections |->
                      IF memCollections[i].id = id
                      THEN [PushTab(memCollections, id,
                                Tab(FreshTabId(memCollections), "t", url, "t", nowIso))[i]
                               EXCEPT !.updatedAt = nowIso]
                      ELSE memCollections[i]]
            /\ saveTimer' = TRUE
    /\ UNCHANGED <<now, nowIso, storeVars, gists, svc, held, isSaving, isSyncing,
                   autoSync, syn, sav>>

\* MipaPopup.addTabToCollection of src/js, lines 555-604: the popup's list
\* is the stored one; unless isTabInCollection finds the URL the tab is
\* pushed and saveToStorageAndSync saves the list and starts the sync.
PopupAddTab(t, id, url) ==
    LET p == ProcOf(t)
        mem == LoadCollections(p)
        pushed == PushTab(mem, id, Tab(FreshTabId(mem), "t", url, UNDEF, 0))
    IN /\ svc[t].pc = "idle"
       /\ HasRoom(mem, id)
       /\ IF \E i \in DOMAIN mem : mem[i].id = id /\ IsTabInCollection(mem[i], url)
          THEN UNCHANGED <<collections, lastModified, held, svc>>
          ELSE /\ StorageSet(p, SaveToLocalStorage(pushed, TRUE, now))
               /\ svc' = [svc EXCEPT ![t] =
                      [IdleFrame EXCEPT !.pc = "start", !.arg = TRUE, !.local = pushed]]
       /\ UNCHANGED <<mgrVars, now, nowIso, gistId, githubToken, lastSyncedData, gists>>

\* MipaTabManager.addTabToCollection of js/mipa.js, lines 716-742: the list
\* of the page is the stored one; unless isTabUrlExists finds the URL the
\* tab is pushed and saveCollections awaits the write of the list.
LegacyAddTab(t, id, url) ==
    LET p == ProcOf(t)
        mem == collections[p]
    IN /\ svc[t].pc = "idle"
       /\ HasRoom(mem, id)
       /\ svc' = [svc EXCEPT ![t] =
              IF LegacyIsTabUrlExists(mem, id, url)
              THEN svc[t]
              ELSE [IdleFrame EXCEPT !.pc = "lset", !.path = "pending",
                        !.local = PushTab(mem, id, Tab(FreshTabId(mem), "t", url, "t", 0))]]
       /\ UNCHANGED <<mgrVars, now, nowIso, storeVars, gists, held>>

\* Profile A holds a collection with one tab, shown by the manager page and
\* by the page of js/ (task a2); profile B holds one shown by its popup
\* (task b1).  No profile is connected to a gist.
InitDup ==
    /\ now = 1
    /\ nowIso = Epoch + 1
    /\ \E seed \in {"https://x.com/a?utm=1", "https://x.com/a/"} :
          /\ collections = [p \in Procs |->
                <<Col(IF p = "A" THEN 1 ELSE NumCols, "c", UNDEF, Epoch + 1, 0,
                      <<Tab(1, "t", seed, UNDEF, 0)>>)>>]
          /\ memCollections =
                <<Col(1, "c", UNDEF, 0, Epoch + 1, <<Tab(1, "t", seed, "t", Epoch + 1)>>)>>
    /\ lastModified = [p \in Procs |-> 1]
    /\ gistId = [p \in Procs |-> NoGist]
    /\ githubToken = [p \in Procs |-> FALSE]
    /\ lastSyncedData = [p \in Procs |-> EmptyContent]
    /\ gists = [g \in GistIds |-> NoSuchGist]
    /\ svc = [t \in Tasks |-> IdleFrame]
    /\ held = [p \in Procs |-> {IF p = "A" THEN 1 ELSE NumCols}]
    /\ isSaving = FALSE
    /\ isSyncing = FALSE
    /\ saveTimer = FALSE
    /\ autoSync = FALSE
    /\ syn = SynIdle
    /\ sav = [s \in SaveTasks |-> SavIdle]

NextDup ==
    \/ \E url \in TabUrls : MgrAddTabToCollection(1, url)
    \/ \E url \in TabUrls : PopupAddTab("b1", NumCols, url)
    \/ SyncStart("b1")
    \/ \E url \in TabUrls : LegacyAddTab("a2", 1, url)
    \/ SaveCollectionsSet("a2", {"ok", "rejected"})
    \/ PopupCreds("a2")

SpecDup == InitDup /\ [][NextDup]_vars

\* The comparison the duplicate rule is stated with: same origin and same
\* path, whatever the query string, the hash and a slash at the end.
SameOriginAndPath(url1, url2) ==
    /\ ParsesAsUrl(url1) /\ ParsesAsUrl(url2)
    /\ UrlParts[url1].origin = UrlParts[url2].origin
    /\ UrlParts[url1].segment = UrlParts[url2].segment

\* `after` is `before` with a tab pushed onto the collection, which held a
\* tab of the same origin and path already.
PushedDuplicate(before, after, collectionId) ==
    \E i \in DOMAIN before, j \in DOMAIN after :
        /\ before[i].id = collectionId /\ after[j].id = collectionId
        /\ Len(after[j].tabs) = Len(before[i].tabs) + 1
        /\ \E k \in DOMAIN before[i].tabs :
              SameOriginAndPath(before[i].tabs[k].url,
                                after[j].tabs[Len(after[j].tabs)].url)

\* C31: duplicate detection.  No step of the manager page, of the popup or
\* of the page of js/ adds a tab to a collection that already holds a tab
\* of the same origin and path (query string, hash and a slash at the end
\* of the path ignored): the add is rejected and the collection unchanged.
C31_DuplicateRejected ==
    [][/\ ~PushedDuplicate(memCollections, memCollections', 1)
       /\ ~PushedDuplicate(collections["B"], collections'["B"], NumCols)
       /\ svc'["a2"].pc = "lset"
             => ~PushedDuplicate(collections["A"], svc'["a2"].local, 1)]_vars

(***************************************************************************)
(* The manager page's operations on the tabs of its collections.           *)
(***************************************************************************)
\* onAdd of the collection's sortable list, lines 2266-2297: an open tab of
\* the sidebar, one without a title, is dropped on the collection; it is
\* pushed, stamped, unless isTabUrlExists finds its URL.
OnAddOpenTab(id, url) ==
    /\ HasRoom(memCollections, id)
    /\ IF MgrIsTabUrlExists(memCollections, id, url)
       THEN UNCHANGED <<memCollections, saveTimer>>
       ELSE /\ memCollections' =
                  [i \in DOMAIN memCollections |->
                      IF memCollections[i].id = id
                      THEN [PushTab(memCollections, id,
                                Tab(FreshTabId(memCollections), "Untitled", url, "", nowIso))[i]
                               EXCEPT !.updatedAt = nowIso]
                      ELSE memCollections[i]]
            /\ saveTimer' = TRUE
    /\ UNCHANGED <<now, nowIso, storeVars, gists, svc, held, isSaving, isSyncing,
                   autoSync, syn, sav>>

\* updateCollectionOrder, lines 1061-1124, after the k-th card of the
\* collection at `source` was dropped at the end of the one at `target`,
\* or back where it was when the two are the same: a card from another
\* collection is skipped when isTabUrlExists finds its URL in the target;
\* otherwise it joins the target's tabs and leaves its source.
UpdateCollectionOrder(target, source, k) ==
    LET tab == memCollections[source].tabs[k] IN
    /\ target \in DOMAIN memCollections /\ source \in DOMAIN memCollections
    /\ k \in DOMAIN memCollections[source].tabs
    /\ target # source => Len(memCollections[target].tabs) < MaxTabs
    /\ memCollections' =
          IF \/ target = source
             \/ MgrIsTabUrlExists(memCollections, memCollections[target].id, tab.url)
          THEN memCollections
          ELSE [i \in DOMAIN memCollections |->
                   IF i = target
                   THEN [memCollections[i] EXCEPT !.tabs = Append(@, tab)]
                   ELSE [memCollections[i] EXCEPT !.tabs =
                            SelectSeq(@, LAMBDA other :
                                \A h \in DOMAIN memCollections[target].tabs :
                                    /\ other.id # tab.id
                                    /\ other.id # memCollections[target].tabs[h].id)]]
    /\ saveTimer' = TRUE
    /\ UNCHANGED <<now, nowIso, storeVars, gists, svc, held, isSaving, isSyncing,
                   autoSync, syn, sav>>

\* The submit handler of the edit form, lines 1215-1235: the tab takes the
\* URL of the form (a title and a URL are filled in) and is stamped.
EditTabSubmit(collectionIndex, tabIndex, url) ==
    /\ collectionIndex \in DOMAIN memCollections
    /\ tabIndex \in DOMAIN memCollections[collectionIndex].tabs
    /\ memCollections' =
          [memCollections EXCEPT ![collectionIndex] =
              [@ EXCEPT !.updatedAt = nowIso,
                        !.tabs[tabIndex] =
                            Tab(@.id, @.title, url, @.description, nowIso)]]
    /\ saveTimer' = TRUE
    /\ UNCHANGED <<now, nowIso, storeVars, gists, svc, held, isSaving, isSyncing,
                   autoSync, syn, sav>>

\* A file of the current format to import: one collection of one tab.
ImportedFile ==
    <<Col(1, "c", UNDEF, 0, 0, <<Tab(1, "t", "https://x.com/b", UNDEF, 0)>>)>>

\* importData, lines 2100-2179, with a file that is an array of
\* collections: it replaces the list, or adds the collections whose id the
\* list lacks; saveCollections arms the timer.
ImportData(importedCollections, replaceData) ==
    /\ memCollections' =
          IF replaceData THEN importedCollections
          ELSE memCollections
                  \o SelectSeq(importedCollections,
                               LAMBDA c : c.id \notin ColIdsIn(memCollections))
    /\ saveTimer' = TRUE
    /\ UNCHANGED <<now, nowIso, storeVars, gists, svc, held, isSaving, isSyncing,
                   autoSync, syn, sav>>

\* The URLs the form and the browser supply in SpecUnique.
AddedUrls == {"https://x.com/a#frag", "https://x.com/b"}
EditedUrls == {"https://x.com/a", NoScheme}

\* The manager page of a profile connected to the shared gist shows two
\* collections of one tab each; the gist holds the first collection as
\* another device pushed it, with a tab of its own.  No collection holds
\* two tabs of one origin and path.
InitUnique ==
    /\ now = 1
    /\ nowIso = Epoch + 1
    /\ collections = [p \in Procs |-> <<>>]
    /\ lastModified = [p \in Procs |-> 0]
    /\ gistId = [p \in Procs |-> SharedGist]
    /\ githubToken = [p \in Procs |-> TRUE]
    /\ lastSyncedData = [p \in Procs |-> EmptyContent]
    /\ gists = [g \in GistIds |->
                   IF g = SharedGist
                   THEN [exists |-> TRUE, updated_at |-> 1,
                         content |-> DeterministicStringify(
                             <<Col(1, "c", UNDEF, 0, Epoch + 1,
                                   <<Tab(3, "t", "https://x.com/a", "t", Epoch + 1)>>)>>)]
                   ELSE NoSuchGist]
    /\ svc = [t \in Tasks |-> IdleFrame]
    /\ held = [p \in Procs |-> {}]
    /\ memCollections =
          <<Col(1, "c", UNDEF, 0, Epoch + 1,
                <<Tab(1, "t", "https://x.com/a?utm=1", "t", Epoch + 1)>>),
            Col(NumCols, "d", UNDEF, 0, Epoch + 1,
                <<Tab(2, "t", "https://x.com/a/", "t", Epoch + 1)>>)>>
    /\ isSaving = FALSE
    /\ isSyncing = FALSE
    /\ saveTimer = FALSE
    /\ autoSync = TRUE
    /\ syn = SynIdle
    /\ sav = [s \in SaveTasks |-> SavIdle]

NextUnique ==
    \/ \E id \in ColIds, url \in AddedUrls : MgrAddTabToCollection(id, url)
    \/ \E id \in ColIds, url \in AddedUrls : OnAddOpenTab(id, url)
    \/ \E target \in 1 .. 2, source \in 1 .. 2, k \in 1 .. MaxTabs :
          UpdateCollectionOrder(target, source, k)
    \/ \E i \in 1 .. 2, k \in 1 .. MaxTabs, url \in EditedUrls : EditTabSubmit(i, k, url)
    \/ \E replaceData \in BOOLEAN : ImportData(ImportedFile, replaceData)
    \/ SetupAutoSync
    \/ SyncGistId
    \/ LoadCreds
    \/ LoadGet(MgrGetAnswers)

SpecUnique == InitUnique /\ [][NextUnique]_vars

\* C37: URL uniqueness.  No collection of the manager page holds two tabs
\* whose URLs are equal under the normalized comparison (origin plus path).
C37_UrlsUnique ==
    \A i \in DOMAIN memCollections :
        \A k \in DOMAIN memCollections[i].tabs, l \in DOMAIN memCollections[i].tabs :
            k < l => ~CompareUrls(memCollections[i].tabs[k].url,
                                  memCollections[i].tabs[l].url, FALSE)

\* C34: remote wins.  What GistService.mergeCollections returns holds the
\* local ids in local order, then the ids only the remote list has in remote
\* order; an id both lists have carries exactly the remote record, whatever
\* the timestamps.
C34_RemoteWins ==
    ServiceMerged =>
        LET remoteOnly == SelectSeq(MergeRemote,
                                    LAMBDA c : c.id \notin ColIdsIn(MergeLocal))
        IN /\ Len(ServiceResult) = Len(MergeLocal) + Len(remoteOnly)
           /\ \A i \in DOMAIN MergeLocal :
                 IF MergeLocal[i].id \in ColIdsIn(MergeRemote)
                 THEN \E j \in DOMAIN MergeRemote :
                         /\ MergeRemote[j].id = MergeLocal[i].id
                         /\ ServiceResult[i] = MergeRemote[j]
                 ELSE ServiceResult[i] = MergeLocal[i]
           /\ \A j \in DOMAIN remoteOnly :
                 ServiceResult[Len(MergeLocal) + j] = remoteOnly[j]

\* C34: the merge has returned the remote record of a collection whose
\* local record is the newer one, in the position of the local record and
\* before a collection only the remote list has.
C34_OlderRemoteWon ==
    /\ ServiceMerged
    /\ Len(MergeLocal) = 1 /\ Len(MergeRemote) = 2
    /\ MergeLocal[1].id = MergeRemote[2].id
    /\ MergeLocal[1].updatedAt > MergeRemote[2].updatedAt
    /\ MergeRemote[2].updatedAt # 0
    /\ ServiceResult = <<MergeRemote[2], MergeRemote[1]>>

(***************************************************************************)
(* One popup that is the gist's only writer: saveAllTabsToCollection       *)
(* (task a1) and addTabToCollection (task a2) overlap, over a network that *)
(* answers.                                                                *)
(***************************************************************************)
InitRace ==
    /\ FreshProfiles(TRUE)
    /\ \E content \in {EmptyContent, DeterministicStringify(<<>>)} :
          gists = [g \in GistIds |->
                      IF g = SharedGist
                      THEN [exists |-> TRUE, content |-> content, updated_at |-> 1]
                      ELSE NoSuchGist]
    /\ NoManager

NextRace ==
    \/ Tick
    \/ \E id \in IdsOf("A") : SaveAllTabsToCollection("a1", id)
    \/ \E id \in IdsOf("A") : PopupAddTab("a2", id, "https://x.com/a")
    \/ \E t \in OnePopup :
          \/ SyncStart(t)
          \/ SyncFetch(t, Reliable)
          \/ SyncLoad(t)
          \/ UpdateGist(t, Reliable)
          \/ SyncReturn(t)

SpecRace == InitRace /\ [][NextRace]_vars

\* C35: the client's own sync keeps a persisted edit.  With one client and
\* no other writer to the gist, a write of the local store by syncWithGist
\* leaves no stored collection out and replaces none by a version with fewer
\* tabs, the edits of the model being the tabs added and saved.
C35_OwnSyncKeepsEdit ==
    [][\A t \in OnePopup :
          (svc[t].pc = "load" /\ svc'[t].pc = "saved")
             => \A i \in DOMAIN collections["A"] :
                   \E j \in DOMAIN collections'["A"] :
                      /\ collections'["A"][j].id = collections["A"][i].id
                      /\ Len(collections'["A"][j].tabs)
                            >= Len(collections["A"][i].tabs)]_vars

\* Task t takes a step of the push path in this step: it finds the remote
\* no later than lastModified, or it is on that path and its PATCH is
\* answered or it returns.
PushPathStep(t) ==
    \/ /\ svc[t].pc = "load"
       /\ svc'[t].pc # "load"
       /\ ~IsEmptyContent(svc[t].rContent)
       /\ svc[t].rUpdatedAt <= svc[t].lm
    \/ /\ svc[t].path = "push"
       /\ svc[t].pc \in {"patch", "synced"}
       /\ svc'[t] # svc[t]

\* C33: the push path changes nothing the merge decision depends on.  No
\* step of an attempt on the push path changes the stored collections or
\* lastModified of any profile.
C33_PushLeavesLocalAlone ==
    [][\A t \in Tasks :
          PushPathStep(t) => collections' = collections /\ lastModified' = lastModified]_vars

\* C33: an attempt has pushed a stored list and is about to return.
C33_PushCompleted ==
    \E t \in Tasks :
        /\ svc[t].pc = "synced"
        /\ svc[t].path = "push"
        /\ collections[ProcOf(t)] # <<>>
        /\ lastModified[ProcOf(t)] > 0
        /\ gists[SharedGist].content = lastSyncedData[ProcOf(t)]

\* C36: a push that is reported has reached the gist.  When updateGist
\* returns on the push path or the empty-remote path, so that syncWithGist
\* goes on to return the local collections, the gist's file holds the text
\* that was sent and lastSyncedData equals the gist's content; a PATCH the
\* server rejected does not end that way.
C36_ReportedPushReachedGist ==
    [][\A t \in Tasks :
          LET f == svc[t] IN
          (f.pc = "patch" /\ f.path \in {"push", "empty"} /\ svc'[t].pc = "synced")
             => /\ gists'[f.gid].exists
                /\ gists'[f.gid].content = f.content
                /\ lastSyncedData'[ProcOf(t)] = gists'[f.gid].content]_vars

(***************************************************************************)
(* The manager page over collections the popup has stored: they carry      *)
(* createdAt and no updatedAt.  The page has loaded them; a card is        *)
(* dropped back where it was, which calls saveCollections.                 *)
(***************************************************************************)
InitResave ==
    /\ now = 1
    /\ nowIso = Epoch + 1
    /\ collections = [p \in Procs |->
          IF p = MgrProc
          THEN <<Col(1, "c", UNDEF, Epoch + 1, 0, <<Tab(1, "t", "https://x.com/a", UNDEF, 0)>>)>>
          ELSE <<>>]
    /\ memCollections = collections[MgrProc]
    /\ held = [p \in Procs |-> ColIdsIn(collections[p])]
    /\ lastModified = [p \in Procs |-> IF p = MgrProc THEN 1 ELSE 0]
    /\ \E creds \in BOOLEAN :
          /\ gistId = [p \in Procs |-> IF creds THEN SharedGist ELSE NoGist]
          /\ githubToken = [p \in Procs |-> creds]
    /\ lastSyncedData = [p \in Procs |-> EmptyContent]
    /\ gists = [g \in GistIds |->
                   IF g = SharedGist
                   THEN [exists |-> TRUE, updated_at |-> 1,
                         content |-> DeterministicStringify(collections[MgrProc])]
                   ELSE NoSuchGist]
    /\ svc = [t \in Tasks |-> IdleFrame]
    /\ isSaving = FALSE
    /\ isSyncing = FALSE
    /\ saveTimer = FALSE
    /\ autoSync = FALSE
    /\ syn = SynIdle
    /\ sav = [s \in SaveTasks |-> SavIdle]

NextResave ==
    \/ Tick
    \/ GistDeleted
    \/ UpdateCollectionOrder(1, 1, 1)
    \/ \E s \in {"s1"} :
          \/ PerformSaveCollections(s)
          \/ SaveCheck(s)
          \/ SaveCreds(s)
          \/ SaveGet(s, MgrGetAnswers)
          \/ SavePatch(s, PatchAnswers)
          \/ SavePost(s, GetAnswers)

SpecResave == InitResave /\ [][NextResave]_vars

\* The store holds what a save of the list prepared at some earlier time.
PersistedFrom(cols) ==
    \E iso \in Epoch + 1 .. nowIso :
        collections[MgrProc] = MgrPrepareCollectionsForSaving(cols, iso)

\* C39: no write without a change.  When performSaveCollections runs on
\* in-memory collections that are the ones last persisted, it writes
\* nothing to the store and ends without a network call.
C39_UnchangedNotRewritten ==
    [][\A s \in SaveTasks :
          (/\ sav[s].pc = "check"
           /\ sav'[s].pc # "check"
           /\ sav[s].toSave \in {MgrPrepareCollectionsForSaving(memCollections, iso) :
                                     iso \in Epoch + 1 .. nowIso}
           /\ PersistedFrom(memCollections))
             => /\ collections' = collections
                /\ sav'[s].pc = "idle"]_vars

\* C38: debounced save.  The timer armed by saveCollections (a call within
\* 300 ms of the previous one re-arms it) fires once, after the last call:
\* performSaveCollections then runs with the in-memory collections as they
\* are at that moment, to persist them.
C38_DebouncedSavePersists ==
    [][(saveTimer /\ ~saveTimer')
          => \E s \in SaveTasks :
                /\ sav[s].pc = "idle"
                /\ sav'[s].pc = "check"
                /\ sav'[s].toSave =
                      MgrPrepareCollectionsForSaving(memCollections, nowIso)]_vars

(***************************************************************************)
(* The storage listener of the manager page.  chrome.storage raises a      *)
(* change event for every write of `collections` and delivers it to the    *)
(* page's listener some time later.  No popup runs in this specification:  *)
(* the frame of task a2 holds the event on its way (pc "event"), and after *)
(* the delivery, as history, what the listener did with it.                *)
(***************************************************************************)
ChangeEvent == [IdleFrame EXCEPT !.pc = "event", !.path = "own"]

\* checkIfCollectionsChanged and saveCollectionsToLocalStorage, with the
\* change event the write raises.
SaveCheckNotifying(s) ==
    /\ SaveCheckAndStore(s)
    /\ svc' = [svc EXCEPT !["a2"] =
                  IF sav[s].toSave # collections[MgrProc] THEN ChangeEvent ELSE @]

\* The listener of setupStorageListener, lines 96-108, is handed the event:
\* unless isSaving or isSyncing is set it calls loadCollections, which
\* assigns the stored list to this.collections.
OnStorageChanged ==
    /\ svc["a2"].pc = "event"
    /\ IF ~isSaving /\ ~isSyncing
       THEN /\ memCollections' = collections[MgrProc]
            /\ svc' = [svc EXCEPT !["a2"] = [IdleFrame EXCEPT !.path = "reloaded"]]
       ELSE /\ UNCHANGED memCollections
            /\ svc' = [svc EXCEPT !["a2"] = [IdleFrame EXCEPT !.path = "skipped"]]
    /\ UNCHANGED <<now, nowIso, storeVars, gists, held, isSaving, isSyncing,
                   saveTimer, autoSync, syn, sav>>

NextEcho ==
    \/ Tick
    \/ GistDeleted
    \/ \E id \in IdsOf(MgrProc) : SaveAddCollection(id)
    \/ \E s \in SaveTasks :
          \/ PerformSaveCollections(s)
          \/ SaveCheckNotifying(s)
          \/ SaveCreds(s)
          \/ SaveGet(s, MgrGetAnswers)
          \/ SavePatch(s, PatchAnswers)
          \/ SavePost(s, GetAnswers)
    \/ OnStorageChanged

SpecEcho == InitLost /\ [][NextEcho]_vars

\* C40: no self-induced reload.  The listener never reloads the in-memory
\* collections on a change event that the page's own save raised, however
\* late the event is delivered.
C40_NoSelfInducedReload == svc["a2"].path # "reloaded"

(***************************************************************************)
(* The manager page of js/mipa.js connecting to the gist (task a2).  Its   *)
(* in-memory list is the stored one, or the frame's `local` while a save   *)
(* of it is pending.                                                       *)
(***************************************************************************)
\* loadFromGistAndMerge of js/mipa.js, lines 1496-1515: the gist's tabs in
\* the gist's order, then the local tabs the gist lacks.
RECURSIVE LegacyMergeTabs(_, _, _)
LegacyMergeTabs(gistTabs, existingTabs, mergedTabs) ==
    IF gistTabs = <<>>
    THEN mergedTabs \o existingTabs
    ELSE LET gistTab == Head(gistTabs)
             hit == {j \in DOMAIN existingTabs : existingTabs[j].id = gistTab.id}
         IN LegacyMergeTabs(Tail(gistTabs),
                            IF hit = {} THEN existingTabs
                            ELSE Without(existingTabs, CHOOSE k \in hit : TRUE),
                            Append(mergedTabs, gistTab))

\* Lines 1478-1527: the loop over the gist's collections, then the local ones
\* the gist lacks.
RECURSIVE LegacyMergeLoop(_, _, _)
LegacyMergeLoop(gistCollections, existing, mergedCollections) ==
    IF gistCollections = <<>>
    THEN mergedCollections \o existing
    ELSE LET gistCol == Head(gistCollections)
             hit == {i \in DOMAIN existing : existing[i].id = gistCol.id}
         IN IF hit = {}
            THEN LegacyMergeLoop(Tail(gistCollections), existing,
                                 Append(mergedCollections, gistCol))
            ELSE LET i == CHOOSE k \in hit : TRUE
                     localCol == existing[i]
                     mergedCol ==
                         [localCol EXCEPT
                             !.name = gistCol.name,
                             !.tabs = LegacyMergeTabs(gistCol.tabs,
                                          MapSetAll(<<>>, localCol.tabs), <<>>)]
                 IN LegacyMergeLoop(Tail(gistCollections), Without(existing, i),
                                    Append(mergedCollections, mergedCol))

LegacyLoadFromGistAndMerge(localCollections, gistCollections) ==
    LegacyMergeLoop(gistCollections, MapSetAll(<<>>, localCollections), <<>>)

\* syncWithGist of js/mipa.js, lines 1303-1319: the token is read, or asked
\* for and stored; then gistId is read.
LegacySyncWithGist(t) ==
    LET p == ProcOf(t) IN
    /\ svc[t].pc = "idle"
    /\ githubToken' = [githubToken EXCEPT ![p] = TRUE]
    /\ svc' = [svc EXCEPT ![t] = [IdleFrame EXCEPT !.pc = "lgistId"]]
    /\ UNCHANGED <<mgrVars, now, nowIso, collections, lastModified, gistId,
                   lastSyncedData, gists, held>>

\* Lines 1321-1330: with a gistId loadFromGistAndMerge is called, without
\* one the GET of findExistingMipaGist is issued.
LegacySyncGistId(t) ==
    LET p == ProcOf(t) IN
    /\ svc[t].pc = "lgistId"
    /\ svc' = [svc EXCEPT ![t].pc = IF gistId[p] # NoGist THEN "lcreds" ELSE "lfind"]
    /\ UNCHANGED <<mgrVars, now, nowIso, storeVars, gists, held>>

\* findExistingMipaGist of js/mipa.js, lines 1358-1386, and lines 1331-1342
\* of its caller: a gist in the list is adopted; null is returned when the
\* list holds none and also when the request failed (the catch of line
\* 1382), and then the POST of createGist is issued with the in-memory list.
LegacyFindExistingMipaGist(t, answers) ==
    LET p == ProcOf(t) IN
    /\ svc[t].pc = "lfind"
    /\ \E answer \in answers :
          IF answer = "ok" /\ \E g \in GistIds : gists[g].exists
          THEN /\ \E g \in GistIds :
                     /\ gists[g].exists
                     /\ gistId' = [gistId EXCEPT ![p] = g]
               /\ svc' = [svc EXCEPT ![t].pc = "lcreds"]
          ELSE /\ svc' = [svc EXCEPT ![t] =
                            [@ EXCEPT !.pc = "lcreate",
                                      !.path = IF answer = "ok" THEN "listed" ELSE "unlisted",
                                      !.content = DeterministicStringify(collections[p])]]
               /\ UNCHANGED gistId
    /\ UNCHANGED <<mgrVars, now, nowIso, collections, lastModified, githubToken,
                   lastSyncedData, gists, held>>

\* Lines 1341-1343: the answer to the POST of createGist and the write of
\* the new gistId; a refusal is thrown, caught at line 1349 and logged.
LegacySyncCreate(t, answers) ==
    /\ svc[t].pc = "lcreate"
    /\ \E answer \in answers :
          IF answer = "ok" /\ \E g \in GistIds : ~gists[g].exists
          THEN \E g \in GistIds : CreateGist(g, svc[t].content)
          ELSE UNCHANGED <<gists, gistId>>
    /\ svc' = [svc EXCEPT ![t] = IdleFrame]
    /\ UNCHANGED <<mgrVars, now, nowIso, collections, lastModified, githubToken,
                   lastSyncedData, held>>

\* loadFromGistAndMerge of js/mipa.js, lines 1447-1463: the credentials are
\* read; with both the GET is issued.
LegacyLoadCreds(t) ==
    LET p == ProcOf(t) IN
    /\ svc[t].pc = "lcreds"
    /\ svc' = [svc EXCEPT ![t] =
                  IF githubToken[p] /\ gistId[p] # NoGist
                  THEN [@ EXCEPT !.pc = "lget", !.gid = gistId[p]]
                  ELSE IdleFrame]
    /\ UNCHANGED <<mgrVars, now, nowIso, storeVars, gists, held>>

\* Lines 1465-1531: the answer to the GET.  The merged list replaces the
\* in-memory one and saveCollections is called; any failure is caught and
\* logged.
LegacyLoadGet(t, answers) ==
    LET p == ProcOf(t)
        g == gists[svc[t].gid]
    IN
    /\ svc[t].pc = "lget"
    /\ \E answer \in answers :
          svc' = [svc EXCEPT ![t] =
                    IF answer = "ok" /\ g.exists /\ CanParse(g.content)
                    THEN [IdleFrame EXCEPT !.pc = "lset", !.path = "pending",
                              !.local = LegacyLoadFromGistAndMerge(collections[p],
                                                                   JSONParse(g.content))]
                    ELSE IdleFrame]
    /\ UNCHANGED <<mgrVars, now, nowIso, storeVars, gists, held>>

\* A profile that never connected; the owner may have a Mipa gist already.
InitAdopt ==
    /\ FreshProfiles(FALSE)
    /\ \E g1 \in {NoSuchGist}
             \cup {[exists |-> TRUE, content |-> content, updated_at |-> 1] :
                     content \in {EmptyContent, DeterministicStringify(<<>>),
                                  DeterministicStringify(<<Pushed(NumCols)>>)}} :
          gists = [g \in GistIds |-> IF g = SharedGist THEN g1 ELSE NoSuchGist]
    /\ NoManager

NextAdopt ==
    \/ Tick
    \/ GistDeleted
    \/ \E id \in IdsOf("A") : SaveCollections("a2", id)
    \/ SaveCollectionsSet("a2", {"ok", "rejected"})
    \/ PopupCreds("a2")
    \/ PopupPatch("a2", GetAnswers)
    \/ PopupPost("a2", GetAnswers)
    \/ LegacySyncWithGist("a2")
    \/ LegacySyncGistId("a2")
    \/ LegacyFindExistingMipaGist("a2", GetAnswers)
    \/ LegacySyncCreate("a2", GetAnswers)
    \/ LegacyLoadCreds("a2")
    \/ LegacyLoadGet("a2", GetAnswers)

SpecAdopt == InitAdopt /\ [][NextAdopt]_vars

\* C32: first connect adopts an existing gist.  A connect without a stored
\* gistId creates a gist only when the owner has none: whenever the POST of
\* syncWithGist creates a gist, no gist existed.
C32_CreatesOnlyWithoutGist ==
    [][(svc["a2"].pc = "lcreate" /\ \E g \in GistIds : ~gists[g].exists /\ gists'[g].exists)
          => \A g \in GistIds : ~gists[g].exists]_vars

\* C5: the decision rule.  With non-empty remote content, the attempt that
\* decides merges (it writes the merged list and lastModified to the local
\* store) exactly when the remote timestamp it fetched is strictly greater
\* than the lastModified it read (0 when none is stored); otherwise it takes
\* the push path and leaves the local store alone.
C5_DecisionRule ==
    [][\A t \in Tasks :
          LET f == svc[t]
              p == ProcOf(t)
              local == IF f.arg THEN f.local ELSE LoadCollections(p)
          IN (f.pc = "load" /\ svc'[t].pc # "load" /\ CanParse(f.rContent))
             => IF f.rUpdatedAt > f.lm
                THEN /\ svc'[t].pc = "saved"
                     /\ svc'[t].path = "merge"
                     /\ lastModified'[p] = now
                     /\ ColIdsIn(collections'[p]) =
                            ColIdsIn(local) \cup ColIdsIn(f.rContent.val)
                ELSE /\ svc'[t].pc \in {"patch", "idle"}
                     /\ svc'[t].path \in {"push", "none"}
                     /\ collections'[p] = collections[p]
                     /\ lastModified'[p] = lastModified[p]]_vars

\* C5: an attempt is on the push path, about to PATCH, after it found the
\* remote timestamp equal to the stored lastModified.
C5_PushOnEqualReached ==
    \E t \in Tasks : svc[t].pc = "patch" /\ svc[t].path = "push" /\ svc[t].cmp = "eq"

====
